---------------------------- MODULE Spec2Model ----------------------------
(***************************************************************************)
(* Model of the Diavgeia monthly digest scripts:                           *)
(*   src/digest_monthly.py            ("DM"  below)                        *)
(*   src/diavgeia_monthly_digest.py   ("DMD" below)                        *)
(*                                                                         *)
(* Specifications                                                          *)
(*   Spec         main() of both scripts: window derivation, the five      *)
(*                window fetches page by page, normalisation, computation  *)
(*                and artifact writing.  A frame is its row count.         *)
(*   SpecWindows  prepare_windows / the window derivation of DMD main over *)
(*                a range of (year, month) targets.                        *)
(*   SpecFetch    one call of fetch_export (DM) or fetch_decisions (DMD)   *)
(*                against a server that answers every page request with    *)
(*                any page length or with a failure.                       *)
(*   SpecKpi      the per-frame normalisation of main followed by          *)
(*                compute_kpis, on explicit small batches of records.      *)
(*   SpecPct      pct_change of both scripts on Python values.             *)
(*                                                                         *)
(* Floats are modelled as exact rationals (no rounding, no overflow).      *)
(***************************************************************************)
EXTENDS Integers, Sequences, FiniteSets, TLC

VARIABLES
    impl,       \* which script runs: "DM" or "DMD"
    pc,         \* position of the running script / call
    year,       \* target year
    month,      \* target month
    windows,    \* result of the window derivation: [exc, w]
    caller,     \* who called the fetcher: "main" or "direct"
    chunk,      \* DMD --chunk-by-day
    ranges,     \* date ranges of the running fetch call (DM: the one window)
    ridx,       \* index in ranges of the range being fetched
    dframes,    \* DMD fetch_decisions: frames (row counts) collected so far
    remaining,  \* DM fetch_export: remaining
    page,       \* page index of the next request
    rows,       \* number of records in rows
    srvMode,    \* how the server answers: "list", "bounded", "any" or "full"
    srvTotal,   \* "list" server: number of records matching the query
    reqlog,     \* requests sent by the running fetch_export / fetch_range
    nreq,       \* number of requests sent so far in the run
    lastLen,    \* length of the last page received by the running call, -1: none
    failReq,    \* number of the request that failed, 0: none
    ret,        \* what a direct fetch call returned
    frames,     \* main: row counts of the frames fetched so far
    computed,   \* main: computations performed
    kpiCounts,  \* main: count of each KPI snapshot
    artifacts,  \* files written
    batch,      \* SpecKpi: the records a window fetch returned
    frame,      \* SpecKpi: the frame of the window: [columns, rows]
    kpi,        \* SpecKpi: the KPI snapshot of the frame
    cur,        \* SpecPct: argument current of pct_change
    prev,       \* SpecPct: argument previous of pct_change
    pctDM,      \* SpecPct: outcome of DM pct_change
    pctDMD,     \* SpecPct: outcome of DMD pct_change
    decision_labels, \* SpecMix: the label dictionary: code -> label
    mapping,    \* SpecRegion: organizationUid -> region, as loaded
    recent,     \* SpecTrend: result of compute_recent_months
    trend,      \* SpecTrend: result of compute_trend_stats
    mix,        \* SpecMix: result of build_mix / compute_mix
    unknown_codes, \* SpecMix: codes written to unmapped_codes.csv
    outliers,   \* SpecOutliers: result of slowest_decisions / compute_outliers
    region,     \* SpecRegion: result of infer_region
    row,        \* SpecRegion: the row infer_region is applied to
    region_map_file, \* SpecRegion: org_region_map.csv
    months,     \* SpecRegional: argument months of compute_regional_trends
    regional,   \* SpecRegional: result of compute_regional_trends
    limit,      \* SpecExport: --limit of fetch_diavgeia_export
    no_csv,     \* SpecExport: --no-csv of fetch_diavgeia_export
    written,    \* SpecExport: the rows written, page by page: [lo, hi) offsets
    retries,    \* SpecGet: argument retries of _get
    attempt,    \* SpecGet: the attempt _get is at
    outcome     \* SpecGet: how _get ended

winVars == <<year, month, windows>>
callVars == <<caller, chunk, ranges, ridx, dframes, remaining, page, rows>>
netVars == <<srvMode, srvTotal, reqlog, nreq, lastLen, failReq>>
mainVars == <<ret, frames, computed, kpiCounts, artifacts>>
kpiVars == <<batch, frame, kpi>>
pctVars == <<cur, prev, pctDM, pctDMD>>
\* Variables of the specifications of single functions.
aggVars == <<decision_labels, mapping, recent, trend, mix, unknown_codes,
            outliers, region, row, region_map_file>>
\* Variables of the specifications of the command-line fetchers.
toolVars == <<months, regional, limit, no_csv, written, retries, attempt, outcome>>
pureVars == <<kpiVars, pctVars, aggVars, toolVars>>
runVars == <<winVars, callVars, netVars, mainVars>>
vars == <<impl, pc, runVars, pureVars>>

Impls == {"DM", "DMD"}

(***************************************************************************)
(* datetime.date                                                           *)
(***************************************************************************)
IsLeap(y) == (y % 4 = 0) /\ ((y % 100 # 0) \/ (y % 400 = 0))

DaysInMonth(y, m) ==
    IF m = 2 THEN (IF IsLeap(y) THEN 29 ELSE 28)
    ELSE IF m \in {4, 6, 9, 11} THEN 30 ELSE 31

\* date(y, m, d) raises ValueError unless this holds.
DateOk(y, m, d) ==
    /\ y >= 1 /\ y <= 9999       \* datetime.MINYEAR, datetime.MAXYEAR
    /\ m >= 1 /\ m <= 12
    /\ d >= 1 /\ d <= DaysInMonth(y, m)

Date(y, m, d) == [y |-> y, m |-> m, d |-> d]

\* date.replace(day = d)
ReplaceDay(dt, d) == Date(dt.y, dt.m, d)

\* d1 <= d2 on dates
DateLe(a, b) ==
    \/ a.y < b.y
    \/ a.y = b.y /\ a.m < b.m
    \/ a.y = b.y /\ a.m = b.m /\ a.d <= b.d

NextDay(dt) ==
    IF dt.d < DaysInMonth(dt.y, dt.m) THEN Date(dt.y, dt.m, dt.d + 1)
    ELSE IF dt.m < 12 THEN Date(dt.y, dt.m + 1, 1)
    ELSE Date(dt.y + 1, 1, 1)

PrevDay(dt) ==
    IF dt.d > 1 THEN Date(dt.y, dt.m, dt.d - 1)
    ELSE IF dt.m > 1 THEN Date(dt.y, dt.m - 1, DaysInMonth(dt.y, dt.m - 1))
    ELSE Date(dt.y - 1, 12, 31)

\* date + timedelta(days = n)
RECURSIVE AddDays(_, _)
AddDays(dt, n) ==
    IF n = 0 THEN dt
    ELSE IF n > 0 THEN AddDays(NextDay(dt), n - 1)
    ELSE AddDays(PrevDay(dt), n + 1)

(***************************************************************************)
(* Window derivation                                                       *)
(***************************************************************************)
Window(s, e) == [start |-> s, end |-> e]

\* DM month_bounds raises: date(year, month, 1) out of range, or the
\* day-28 + 4 days step leaves the supported range (December 9999).
MonthBoundsRaisesDM(y, m) == ~DateOk(y, m, 1) \/ (y = 9999 /\ m = 12)

\* Mutant: timedelta(days=3) in place of timedelta(days=4).
MonthBoundsDM3Days(y, m) ==
    LET start == Date(y, m, 1)
        next_month == AddDays(ReplaceDay(start, 28), 3)
        end == AddDays(ReplaceDay(next_month, 1), -1)
    IN Window(start, end)

MonthBoundsDM(y, m) ==
    LET start == Date(y, m, 1)
        next_month == AddDays(ReplaceDay(start, 28), 4)
        end == AddDays(ReplaceDay(next_month, 1), -1)
    IN Window(start, end)

MonthBoundsRaisesDMD(y, m) ==
    ~DateOk(y, m, 1) \/ ~DateOk(y + (m \div 12), (m % 12) + 1, 1)

MonthBoundsDMD(y, m) ==
    LET start == Date(y, m, 1)
        next_month == Date(y + (m \div 12), (m % 12) + 1, 1)
        end == AddDays(next_month, -1)
    IN Window(start, end)

MonthBoundsRaises(i, y, m) ==
    IF i = "DM" THEN MonthBoundsRaisesDM(y, m) ELSE MonthBoundsRaisesDMD(y, m)

MonthBounds(i, y, m) ==
    IF i = "DM" THEN MonthBoundsDM(y, m) ELSE MonthBoundsDMD(y, m)

PrevYear(y, m) == IF m > 1 THEN y ELSE y - 1
PrevMonth(m) == IF m > 1 THEN m - 1 ELSE 12

\* Mutant: the day number clamped to the length of the prior year's month.
YtdPrevEndDayClamped(i, y, m) ==
    IF MonthBounds(i, y, m).end.d <= DaysInMonth(y - 1, m)
    THEN MonthBounds(i, y, m).end.d ELSE DaysInMonth(y - 1, m)

\* The day number used for the end of the prior-year-to-date window.
YtdPrevEndDay(i, y, m) == MonthBounds(i, y, m).end.d

Raised(e) == [exc |-> e, w |-> <<>>]

\* prepare_windows (DM) and the derivation at the head of main (DMD): the
\* statements in program order, the first raising statement ends the call.
\* Result windows: <<current, previous, ytd, ytd_prev, yoy_month>>.
PrepareWindows(i, y, m) ==
    IF MonthBoundsRaises(i, y, m) THEN Raised("ValueError")
    ELSE IF MonthBoundsRaises(i, PrevYear(y, m), PrevMonth(m))
        THEN Raised("ValueError")
    ELSE IF ~DateOk(y, 1, 1) \/ ~DateOk(y - 1, 1, 1) THEN Raised("ValueError")
    ELSE IF ~DateOk(y - 1, m, YtdPrevEndDay(i, y, m)) THEN Raised("ValueError")
    ELSE IF MonthBoundsRaises(i, y - 1, m) THEN Raised("ValueError")
    ELSE LET current == MonthBounds(i, y, m)
             previous == MonthBounds(i, PrevYear(y, m), PrevMonth(m))
             ytd == Window(Date(y, 1, 1), current.end)
             ytd_prev == Window(Date(y - 1, 1, 1),
                                Date(y - 1, m, YtdPrevEndDay(i, y, m)))
             yoy_month == MonthBounds(i, y - 1, m)
         IN [exc |-> "",
             w |-> <<current, previous, ytd, ytd_prev, yoy_month>>]

NoWindows == [exc |-> "none", w |-> <<>>]

\* Bounds of the targets explored by SpecWindows.
MinYear == 1999
MaxYear == 2025
\* Century years: 1900 and 2100 are not leap, 2000 is.
CenturyYears == {1900, 1901, 2100, 2101}
Years == (MinYear .. MaxYear) \cup CenturyYears
Months == 1 .. 12

(***************************************************************************)
(* The export API as the fetchers see it                                   *)
(***************************************************************************)
PAGE_SIZE == 500
MAX_RESULTS == 5000

\* SpecFetch: a chunked fetch_decisions call covers at most MaxDays days, and
\* the server ends every result list of fetch_range within MaxPages pages
\* (fetch_range itself has no page limit).
MaxDays == 2
MaxPages == 3

Min(a, b) == IF a <= b THEN a ELSE b
Max(a, b) == IF a >= b THEN a ELSE b

\* Page lengths of the "bounded" and "any" servers.
PageLens == {0, 1, PAGE_SIZE - 1, PAGE_SIZE, PAGE_SIZE + 1, 2 * PAGE_SIZE}
\* Result list lengths of the "list" server.
Totals == {0, 1, PAGE_SIZE, MAX_RESULTS + 1}

\* The lengths of decisionResultList the server may answer the request
\* (page pg, size sz) with.  "list": the records at offsets
\* [pg*sz, pg*sz + sz) of a list of srvTotal records; "bounded": any length
\* up to sz; "any": any length; "full": every page is full.
Responses(pg, sz) ==
    IF srvMode = "list" THEN {Min(sz, Max(0, srvTotal - pg * sz))}
    ELSE IF srvMode = "bounded" THEN {n \in PageLens : n <= sz}
    ELSE IF srvMode = "full" THEN {sz}
    ELSE PageLens

\* Against the "full" server fetch_range is followed for the pages that take
\* it past MAX_RESULTS records.
MaxFullPages == MAX_RESULTS \div PAGE_SIZE + 1

\* The page limit of the model on fetch_range.
Capped(pg, lens) ==
    IF srvMode = "full" THEN (IF pg < MaxFullPages THEN lens ELSE {})
    ELSE IF srvMode # "list" /\ pg + 1 >= MaxPages
    THEN {n \in lens : n < PAGE_SIZE} ELSE lens

NewTotals == IF srvMode = "list" THEN Totals ELSE {0}

(***************************************************************************)
(* fetch_export (DM), fetch_range / fetch_decisions (DMD)                  *)
(***************************************************************************)
\* Mutant: while True
LoopCondAlways(rem) == TRUE

\* while remaining > 0
LoopCond(rem) == rem > 0

\* "size": min(PAGE_SIZE, remaining)
RequestSize(rem) == Min(PAGE_SIZE, rem)

\* Mutant: remaining -= 1
NextRemainingPerPage(rem, n) == rem - 1

\* remaining -= len(batch)
NextRemaining(rem, n) == rem - n

\* if not batch: break
EmptyPage(n) == n = 0

\* Mutant: the short-page test left out.
ShortPageNever(n) == FALSE

\* if len(batch) < PAGE_SIZE: break
ShortPage(n) == n < PAGE_SIZE

\* Mutant: the failed request is tried again.
PcOnFailureRetry == pc

\* Mutant: the error is swallowed and main goes on with the frames it has.
PcOnFailureSwallow == IF caller = "main" THEN "fetched" ELSE "raised"

\* requests.get / raise_for_status raise; neither the fetcher nor main
\* catches, so the exception ends the call and, under main, the run.
PcOnFailure == IF caller = "main" THEN "aborted" ELSE "raised"

FetchPc == IF impl = "DM" THEN "fetch_export" ELSE "fetch_range"

\* (e - s).days for s <= e
RECURSIVE DaysFrom(_, _)
DaysFrom(s, e) == IF s = e THEN 0 ELSE 1 + DaysFrom(NextDay(s), e)

\* fetch_decisions: the ranges fetched one after the other.  DM fetches the
\* window as one range.
RangesOf(i, s, e, ch) ==
    IF i = "DMD" /\ ch
    THEN [k \in 1 .. (DaysFrom(s, e) + 1) |->
             Window(AddDays(s, k - 1), AddDays(s, k - 1))]
    ELSE <<Window(s, e)>>

RECURSIVE SumSeq(_)
SumSeq(s) == IF s = <<>> THEN 0 ELSE Head(s) + SumSeq(Tail(s))

NoResult == [kind |-> "none", n |-> 0]
Frame(count) == [kind |-> "frame", n |-> count]

\* Locals at the start of fetch_export / fetch_decisions.
FreshLocals ==
    [remaining |-> IF impl = "DM" THEN MAX_RESULTS ELSE 0,
     page |-> 0, rows |-> 0, dframes |-> <<>>, ridx |-> 1]

SetLocals(l) ==
    /\ remaining' = l.remaining
    /\ page' = l.page
    /\ rows' = l.rows
    /\ dframes' = l.dframes
    /\ ridx' = l.ridx

\* The request raised.
RequestFails(req) ==
    /\ nreq' = nreq + 1
    /\ reqlog' = Append(reqlog, req)
    /\ failReq' = nreq + 1
    /\ pc' = PcOnFailure
    /\ UNCHANGED <<impl, winVars, callVars, srvMode, srvTotal, lastLen, mainVars,
                   pureVars>>

\* A page of n records was taken and the loop goes on to the next page.
NextPage(req, n, loc) ==
    /\ nreq' = nreq + 1
    /\ reqlog' = Append(reqlog, req)
    /\ lastLen' = n
    /\ SetLocals(loc)
    /\ UNCHANGED <<impl, pc, winVars, caller, chunk, ranges, srvMode, srvTotal,
                   failReq, mainVars, pureVars>>

\* fetch_range returned and fetch_decisions calls it for the next range.
NextRange(req, df) ==
    /\ nreq' = nreq + 1
    /\ reqlog' = <<>>
    /\ lastLen' = -1
    /\ SetLocals([FreshLocals EXCEPT !.dframes = df, !.ridx = ridx + 1])
    /\ srvTotal' \in NewTotals
    /\ UNCHANGED <<impl, pc, winVars, caller, chunk, ranges, srvMode, failReq,
                   mainVars, pureVars>>

\* The fetch call returns a frame of `count` rows.  Under main the frame is
\* stored and the fetch of the next window starts, or, after the fifth,
\* the run goes on to normalisation.
ReturnFrame(req, n, count, fin) ==
    /\ nreq' = nreq + 1
    /\ UNCHANGED <<impl, winVars, caller, chunk, srvMode, failReq, computed,
                   kpiCounts, artifacts, pureVars>>
    /\ IF caller = "direct" THEN
           /\ pc' = "returned"
           /\ ret' = Frame(count)
           /\ frames' = frames
           /\ SetLocals(fin)
           /\ reqlog' = Append(reqlog, req)
           /\ lastLen' = n
           /\ UNCHANGED <<ranges, srvTotal>>
       ELSE IF Len(frames) + 1 < Len(windows.w) THEN
           /\ pc' = pc
           /\ ret' = ret
           /\ frames' = Append(frames, count)
           /\ SetLocals(FreshLocals)
           /\ reqlog' = <<>>
           /\ lastLen' = -1
           /\ ranges' = LET win == windows.w[Len(frames) + 2]
                        IN RangesOf(impl, win.start, win.end, chunk)
           /\ srvTotal' \in NewTotals
       ELSE
           /\ pc' = "fetched"
           /\ ret' = ret
           /\ frames' = Append(frames, count)
           /\ SetLocals(fin)
           /\ reqlog' = Append(reqlog, req)
           /\ lastLen' = n
           /\ UNCHANGED <<ranges, srvTotal>>

\* DM fetch_export: one iteration of the while loop, from the request to the
\* next test of the loop condition.
FetchExportPage ==
    /\ pc = "fetch_export"
    /\ LET req == [page |-> page, size |-> RequestSize(remaining)]
       IN \/ RequestFails(req)
          \/ \E n \in Responses(page, req.size) :
               LET got == rows + n
                   rem == IF EmptyPage(n) THEN remaining
                          ELSE NextRemaining(remaining, n)
                   pg == IF EmptyPage(n) THEN page ELSE page + 1
                   fin == [remaining |-> rem, page |-> pg, rows |-> got,
                           dframes |-> dframes, ridx |-> ridx]
               IN IF EmptyPage(n) \/ ShortPage(n) \/ ~LoopCond(rem)
                  THEN ReturnFrame(req, n, got, fin)
                  ELSE NextPage(req, n, fin)

\* DMD fetch_range: one iteration of its while loop; when fetch_range
\* returns, fetch_decisions keeps the frame if it is not empty and goes on
\* to the next range or returns the concatenation.
FetchRangePage ==
    /\ pc = "fetch_range"
    /\ LET req == [page |-> page, size |-> PAGE_SIZE]
       IN \/ RequestFails(req)
          \/ \E n \in Capped(page, Responses(page, PAGE_SIZE)) :
               LET got == rows + n
                   df == IF got > 0 THEN Append(dframes, got) ELSE dframes
               IN IF EmptyPage(n) \/ ShortPage(n)
                  THEN IF ridx < Len(ranges)
                       THEN NextRange(req, df)
                       ELSE ReturnFrame(req, n, SumSeq(df),
                                [remaining |-> remaining, page |-> page,
                                 rows |-> got, dframes |-> df, ridx |-> ridx])
                  ELSE NextPage(req, n,
                                [remaining |-> remaining, page |-> page + 1,
                                 rows |-> got, dframes |-> dframes,
                                 ridx |-> ridx])

(***************************************************************************)
(* main                                                                    *)
(***************************************************************************)
Computations(i) ==
    IF i = "DM" THEN {"kpis", "mix", "outliers"}
    ELSE {"kpis", "mix", "recent", "trend", "outliers", "regions"}

OutputFiles(i) ==
    IF i = "DM" THEN {"digest.html", "raw_month.csv", "outliers.csv"}
    ELSE {"digest.html", "raw_month.csv", "outliers.csv",
          "regional_trends_last6.csv"}

\* main up to its first page request: the window derivation, which may
\* raise, and the start of the fetch of the current window.
DeriveWindows ==
    /\ pc = "start"
    /\ windows' = PrepareWindows(impl, year, month)
    /\ IF windows'.exc = "" THEN
           /\ pc' = FetchPc
           /\ ranges' = LET win == windows'.w[1]
                        IN RangesOf(impl, win.start, win.end, chunk)
           /\ srvTotal' \in NewTotals
       ELSE
           /\ pc' = "aborted"
           /\ UNCHANGED <<ranges, srvTotal>>
    /\ UNCHANGED <<impl, year, month, caller, chunk, ridx, dframes, remaining,
                   page, rows, srvMode, reqlog, nreq, lastLen, failReq,
                   mainVars, pureVars>>

\* main after the five fetches: normalisation of the non-empty frames and
\* the computations.  Normalisation and the computations read columns of the
\* frames and raise when a frame with rows lacks one; compute_mix of DMD
\* writes unmapped_codes.csv when the current frame has an unlabelled code.
ComputeDigest ==
    /\ pc = "fetched"
    /\ \E ok \in BOOLEAN, unmapped \in BOOLEAN :
         /\ ~ok => \E k \in 1 .. Len(frames) : frames[k] > 0
         /\ ~ok => ~unmapped
         /\ unmapped => impl = "DMD" /\ Len(frames) >= 1 /\ frames[1] > 0
         /\ IF ok THEN
                /\ pc' = "computed"
                /\ computed' = Computations(impl)
                /\ kpiCounts' = frames
                /\ artifacts' = IF unmapped THEN {"unmapped_codes.csv"} ELSE {}
            ELSE
                /\ pc' = "aborted"
                /\ UNCHANGED <<computed, kpiCounts, artifacts>>
    /\ UNCHANGED <<impl, winVars, callVars, netVars, ret, frames, pureVars>>

\* render_html and the writing of the artifacts.
WriteOutputs ==
    /\ pc = "computed"
    /\ pc' = "done"
    /\ artifacts' = artifacts \cup OutputFiles(impl)
    /\ UNCHANGED <<impl, winVars, callVars, netVars, ret, frames, computed,
                   kpiCounts, pureVars>>

(***************************************************************************)
(* Numbers: floats as exact rationals [n, d] in lowest terms, d > 0; a      *)
(* float cell is <<>> (NaN) or <<r>>.                                       *)
(***************************************************************************)
Abs(x) == IF x < 0 THEN -x ELSE x

RECURSIVE Gcd(_, _)
Gcd(a, b) == IF b = 0 THEN a ELSE Gcd(b, a % b)

Rat(n, d) ==
    LET g == Gcd(Abs(n), Abs(d))
        sg == IF d < 0 THEN -1 ELSE 1
    IN [n |-> (sg * n) \div g, d |-> (sg * d) \div g]

RInt(k) == [n |-> k, d |-> 1]
RAdd(a, b) == Rat(a.n * b.d + b.n * a.d, a.d * b.d)
RSub(a, b) == Rat(a.n * b.d - b.n * a.d, a.d * b.d)
RMul(a, b) == Rat(a.n * b.n, a.d * b.d)
RDiv(a, b) == Rat(a.n * b.d, a.d * b.n)
RLt(a, b) == a.n * b.d < b.n * a.d
RLe(a, b) == a.n * b.d <= b.n * a.d

NaN == <<>>
Fl(r) == <<r>>

(***************************************************************************)
(* Records of the API and pandas frames                                    *)
(*                                                                         *)
(* A record is a function from the field names it carries to cells; a cell  *)
(* is <<>> (JSON null) or <<string>>.  A frame is [columns, rows]: the      *)
(* columns are the union of the field names of the records, a field a       *)
(* record lacks is a missing cell (<<>>).  pandas isna() is true of <<>>.   *)
(***************************************************************************)
Null == <<>>
Str(s) == <<s>>

\* pd.DataFrame(rows)
DataFrameOf(recs) ==
    LET cols == UNION {DOMAIN recs[i] : i \in 1 .. Len(recs)}
    IN [columns |-> cols,
        rows |-> [i \in 1 .. Len(recs) |->
                    [c \in cols |-> IF c \in DOMAIN recs[i]
                                    THEN recs[i][c] ELSE Null]]]

\* df.empty: no rows or no columns
Empty(df) == Len(df.rows) = 0 \/ df.columns = {}

\* df[c] as a sequence of cells
Column(df, c) == [i \in 1 .. Len(df.rows) |-> df.rows[i][c]]

\* df.rename(columns = {old: new})
Rename(df, old, new) ==
    LET cols == (df.columns \ {old}) \cup {new}
    IN [columns |-> cols,
        rows |-> [i \in 1 .. Len(df.rows) |->
                    [c \in cols |-> IF c = new THEN df.rows[i][old]
                                    ELSE df.rows[i][c]]]]

\* df[c] = vals
WithColumn(df, c, vals) ==
    LET cols == df.columns \cup {c}
    IN [columns |-> cols,
        rows |-> [i \in 1 .. Len(df.rows) |->
                    [k \in cols |-> IF k = c THEN vals[i] ELSE df.rows[i][k]]]]

IsNa(cell) == cell = <<>>

(***************************************************************************)
(* Timestamps                                                              *)
(***************************************************************************)
\* Number of months, from January 2024 on, a year-to-date batch covers.
MaxMonths == 7

\* The timestamp string of midnight of day d (< 10) of month m (< 10) of 2024.
MonthTs(d, m) ==
    "0" \o ToString(d) \o "/0" \o ToString(m) \o "/2024 00:00:00"

\* Days of the month the records of a year-to-date batch are issued or
\* submitted on.
TrendDays == {5, 6, 8}

MonthTsTable ==
    LET dates == {Date(2024, m, d) : m \in 1 .. MaxMonths, d \in TrendDays}
    IN [s \in {MonthTs(dt.d, dt.m) : dt \in dates} |->
          [date |-> CHOOSE dt \in dates : MonthTs(dt.d, dt.m) = s, secs |-> 0]]

\* The timestamp strings of the model and what the format
\* "%d/%m/%Y %H:%M:%S" parses them to: a date and the seconds of the day.
TsTable ==
    MonthTsTable @@
    ("05/12/2023 00:00:00" :> [date |-> Date(2023, 12, 5), secs |-> 0]) @@
    ("06/12/2023 00:00:00" :> [date |-> Date(2023, 12, 6), secs |-> 0]) @@
    ("05/03/2024 00:00:00" :> [date |-> Date(2024, 3, 5), secs |-> 0]) @@
    ("05/03/2024 12:00:00" :> [date |-> Date(2024, 3, 5), secs |-> 43200]) @@
    ("06/03/2024 00:00:00" :> [date |-> Date(2024, 3, 6), secs |-> 0]) @@
    ("07/03/2024 00:00:00" :> [date |-> Date(2024, 3, 7), secs |-> 0]) @@
    ("08/03/2024 00:00:00" :> [date |-> Date(2024, 3, 8), secs |-> 0])

\* pd.to_datetime(cell, format = "%d/%m/%Y %H:%M:%S", errors = "coerce"):
\* a missing cell and a string the format does not match give NaT (<<>>).
ToDatetime(cell) ==
    IF IsNa(cell) THEN <<>>
    ELSE IF cell[1] \in DOMAIN TsTable THEN <<TsTable[cell[1]]>>
    ELSE <<>>

\* (b - a).days for dates
DayDiff(a, b) == IF DateLe(a, b) THEN DaysFrom(a, b) ELSE -DaysFrom(b, a)

\* (subm_dt - issue_dt).dt.total_seconds() / 86400
DelayDays(issue_dt, subm_dt) ==
    IF issue_dt = <<>> \/ subm_dt = <<>> THEN NaN
    ELSE Fl(Rat(DayDiff(issue_dt[1].date, subm_dt[1].date) * 86400
                  + subm_dt[1].secs - issue_dt[1].secs, 86400))

(***************************************************************************)
(* Normalisation: enrich_dates (DM), parse_dates (DMD) and the loop of main *)
(***************************************************************************)
FrameExc(e, df) == [exc |-> e, df |-> df]

\* enrich_dates / parse_dates on a frame with rows: df["issueDate"] and
\* df["submissionTimestamp"] raise KeyError when the column does not exist.
EnrichDates(df) ==
    IF "issueDate" \notin df.columns THEN FrameExc("KeyError", df)
    ELSE IF "submissionTimestamp" \notin df.columns THEN FrameExc("KeyError", df)
    ELSE LET n == Len(df.rows)
             issue_dt == [i \in 1 .. n |-> ToDatetime(df.rows[i]["issueDate"])]
             subm_dt == [i \in 1 .. n |->
                           ToDatetime(df.rows[i]["submissionTimestamp"])]
             delay == [i \in 1 .. n |-> DelayDays(issue_dt[i], subm_dt[i])]
         IN FrameExc("", WithColumn(WithColumn(WithColumn(df,
                            "issue_dt", issue_dt), "subm_dt", subm_dt),
                            "delay_days", delay))

\* The body of the frame loop of main: an empty frame is left alone;
\* organizationLabel is renamed to organizationName when the frame has no
\* organizationName column; then the dates are parsed.
NormalizeFrame(df) ==
    IF Empty(df) THEN FrameExc("", df)
    ELSE IF "organizationLabel" \in df.columns
            /\ "organizationName" \notin df.columns
         THEN EnrichDates(Rename(df, "organizationLabel", "organizationName"))
         ELSE EnrichDates(df)

(***************************************************************************)
(* compute_kpis                                                            *)
(***************************************************************************)
\* Insert x in the sorted sequence s.
RECURSIVE Insert(_, _)
Insert(x, s) ==
    IF s = <<>> THEN <<x>>
    ELSE IF RLe(x, Head(s)) THEN <<x>> \o s
    ELSE <<Head(s)>> \o Insert(x, Tail(s))

RECURSIVE SortRat(_)
SortRat(s) == IF s = <<>> THEN <<>> ELSE Insert(Head(s), SortRat(Tail(s)))

\* Mutant: NaN counted as 0.
RECURSIVE DropNaFillZero(_)
DropNaFillZero(cells) ==
    IF cells = <<>> THEN <<>>
    ELSE (IF IsNa(Head(cells)) THEN <<RInt(0)>> ELSE <<Head(cells)[1]>>)
         \o DropNaFillZero(Tail(cells))

\* skipna: the values of the cells that are not NaN
RECURSIVE DropNa(_)
DropNa(cells) ==
    IF cells = <<>> THEN <<>>
    ELSE (IF IsNa(Head(cells)) THEN <<>> ELSE <<Head(cells)[1]>>)
         \o DropNa(Tail(cells))

\* Series.median(skipna=True)
Median(cells) ==
    LET v == SortRat(DropNa(cells))
        n == Len(v)
    IN IF n = 0 THEN NaN
       ELSE IF n % 2 = 1 THEN Fl(v[(n + 1) \div 2])
       ELSE Fl(RDiv(RAdd(v[n \div 2], v[n \div 2 + 1]), RInt(2)))

\* Series.quantile(num/den), linear interpolation between the two order
\* statistics around position (n - 1) * num/den.
Quantile(cells, num, den) ==
    LET v == SortRat(DropNa(cells))
        n == Len(v)
        lo == ((n - 1) * num) \div den
        fr == Rat(((n - 1) * num) % den, den)
    IN IF n = 0 THEN NaN
       ELSE IF fr.n = 0 THEN Fl(v[lo + 1])
       ELSE Fl(RAdd(v[lo + 1], RMul(fr, RSub(v[lo + 2], v[lo + 1]))))

NumNa(cells) == Cardinality({i \in 1 .. Len(cells) : IsNa(cells[i])})

\* DM _pct_missing on df.get(c, empty series); DMD
\* df[c].isna().mean() * 100 if c in df else nan.
PctMissing(df, c) ==
    IF c \notin df.columns THEN NaN
    ELSE IF Len(df.rows) = 0 THEN NaN
    ELSE Fl(Rat(NumNa(Column(df, c)) * 100, Len(df.rows)))

\* Mutant: zeros in place of NaN for the empty batch.
EmptyKpisZero ==
    [exc |-> "", count |-> 0, median |-> Fl(RInt(0)), p90 |-> Fl(RInt(0)),
     miss_pub |-> Fl(RInt(0)), miss_org |-> Fl(RInt(0))]

\* The snapshot of an empty frame.
EmptyKpis ==
    [exc |-> "", count |-> 0, median |-> NaN, p90 |-> NaN,
     miss_pub |-> NaN, miss_org |-> NaN]

NoKpis ==
    [exc |-> "none", count |-> 0, median |-> NaN, p90 |-> NaN,
     miss_pub |-> NaN, miss_org |-> NaN]

ComputeKpisOf(df) ==
    IF Empty(df) THEN EmptyKpis
    ELSE IF "delay_days" \notin df.columns
         THEN [NoKpis EXCEPT !.exc = "KeyError"]
    ELSE [exc |-> "",
          count |-> Len(df.rows),
          median |-> Median(Column(df, "delay_days")),
          p90 |-> Quantile(Column(df, "delay_days"), 9, 10),
          miss_pub |-> PctMissing(df, "publishTimestamp"),
          miss_org |-> PctMissing(df, "organizationLabel")]

(***************************************************************************)
(* compute_recent_months and compute_trend_stats (DMD)                     *)
(***************************************************************************)
\* issue_dt.dt.strftime("%Y-%m"): the year and month, NaN for NaT.
MonthKey(dt) == IF dt = <<>> THEN <<>> ELSE <<[y |-> dt[1].date.y, m |-> dt[1].date.m]>>

\* The order of "%Y-%m" strings.
KeyLt(a, b) == a.y < b.y \/ (a.y = b.y /\ a.m < b.m)

\* The elements of the set of keys in ascending order (sort_index).
RECURSIVE SortKeys(_)
SortKeys(ks) ==
    IF ks = {} THEN <<>>
    ELSE LET lo == CHOOSE k \in ks : \A o \in ks : ~KeyLt(o, k)
         IN <<lo>> \o SortKeys(ks \ {lo})

\* df.groupby("month_key").agg(count=("ada", "count"),
\* median=("delay_days", "median")).sort_index(): rows without a month key
\* belong to no group; count is the number of non-missing ada of the group.
Monthly(df) ==
    LET n == Len(df.rows)
        key(i) == MonthKey(df.rows[i]["issue_dt"])
        keys == {key(i)[1] : i \in {j \in 1 .. n : key(j) # <<>>}}
        grp(k) == SelectSeq([i \in 1 .. n |-> i], LAMBDA i : key(i) = <<k>>)
        order == SortKeys(keys)
    IN [j \in 1 .. Len(order) |->
          [month_key |-> order[j],
           count |-> Cardinality({i \in 1 .. n : key(i) = <<order[j]>>
                                     /\ ~IsNa(df.rows[i]["ada"])}),
           median |-> Median([x \in 1 .. Len(grp(order[j])) |->
                                df.rows[grp(order[j])[x]]["delay_days"]])]]

\* DataFrame.tail(k)
TailRows(sq, k) == SubSeq(sq, Max(1, Len(sq) - k + 1), Len(sq))

\* Mutant: the whole series in place of its last six rows.
Last6Whole(monthly) == monthly

Last6(monthly) == TailRows(monthly, 6)

Last12(monthly) == TailRows(monthly, 12)

\* round(x, digits) of a float cell, ties to even; NaN stays NaN.
RoundTo(cell, digits) ==
    IF cell = NaN THEN NaN
    ELSE LET p == IF digits = 1 THEN 10 ELSE 100
             num == cell[1].n * p
             den == cell[1].d
             fl == IF num >= 0 THEN num \div den ELSE -((-num + den - 1) \div den)
             twice == 2 * (num - fl * den)
             q == IF twice > den \/ (twice = den /\ fl % 2 # 0) THEN fl + 1 ELSE fl
         IN Fl(Rat(q, p))

RECURSIVE SumInts(_)
SumInts(sq) == IF sq = <<>> THEN 0 ELSE Head(sq) + SumInts(Tail(sq))

RECURSIVE SumRats(_)
SumRats(sq) == IF sq = <<>> THEN RInt(0) ELSE RAdd(Head(sq), SumRats(Tail(sq)))

\* int(rows["count"].mean()) if len(rows) else 0
AvgCount(rs) ==
    IF Len(rs) = 0 THEN 0
    ELSE SumInts([i \in 1 .. Len(rs) |-> rs[i].count]) \div Len(rs)

\* round(float(rows["median"].mean()), 2) if len(rows) else 0.0: the mean
\* skips NaN and is NaN when every median is NaN.
AvgMedian(rs) ==
    IF Len(rs) = 0 THEN Fl(RInt(0))
    ELSE LET v == DropNa([i \in 1 .. Len(rs) |-> rs[i].median])
         IN IF Len(v) = 0 THEN NaN
            ELSE RoundTo(Fl(RDiv(SumRats(v), RInt(Len(v)))), 2)

\* Mutant: the most recent month first.
RelLatest(tail, index) ==
    IF Len(tail) >= index + 1 THEN <<tail[Len(tail) - index]>> ELSE <<>>

\* rel(index, key): the row tail[-(index + 2)], <<>> for the int 0.
Rel(tail, index) ==
    IF Len(tail) >= index + 2 THEN <<tail[Len(tail) - (index + 2) + 1]>> ELSE <<>>

RelCount(tail, index) ==
    IF Rel(tail, index) = <<>> THEN 0 ELSE Rel(tail, index)[1].count

RelMedian(tail, index) ==
    IF Rel(tail, index) = <<>> THEN Fl(RInt(0))
    ELSE RoundTo(Rel(tail, index)[1].median, 2)

\* The dictionary of an empty frame.
EmptyTrend == [empty |-> TRUE]

ComputeTrendStats(df) ==
    IF Empty(df) THEN EmptyTrend
    ELSE LET monthly == Monthly(df)
             tail == TailRows(monthly, 4)
         IN [empty |-> FALSE,
             count |-> [avg6 |-> AvgCount(Last6(monthly)),
                        avg12 |-> AvgCount(Last12(monthly)),
                        m1 |-> RelCount(tail, 0),
                        m2 |-> RelCount(tail, 1),
                        m3 |-> RelCount(tail, 2)],
             median |-> [avg6 |-> AvgMedian(Last6(monthly)),
                         avg12 |-> AvgMedian(Last12(monthly)),
                         m1 |-> RelMedian(tail, 0),
                         m2 |-> RelMedian(tail, 1),
                         m3 |-> RelMedian(tail, 2)]]

ComputeRecentMonths(df) ==
    IF Empty(df) THEN <<>>
    ELSE LET rs == TailRows(Monthly(df), 6)
         IN [i \in 1 .. Len(rs) |->
               [month |-> rs[i].month_key, count |-> rs[i].count,
                median |-> rs[i].median]]

(***************************************************************************)
(* Region inference (DMD)                                                  *)
(*                                                                         *)
(* The strings of this part are sequences of characters, so that strip,    *)
(* upper and the substring test are computed on them.                      *)
(***************************************************************************)
\* str.upper() of the lower-case letters (any other character is unchanged).
UpperMap ==
    ("a" :> "A") @@ ("b" :> "B") @@ ("c" :> "C") @@ ("d" :> "D") @@ ("e" :> "E") @@ ("f" :> "F") @@
    ("g" :> "G") @@ ("h" :> "H") @@ ("i" :> "I") @@ ("j" :> "J") @@ ("k" :> "K") @@ ("l" :> "L") @@
    ("m" :> "M") @@ ("n" :> "N") @@ ("o" :> "O") @@ ("p" :> "P") @@ ("q" :> "Q") @@ ("r" :> "R") @@
    ("s" :> "S") @@ ("t" :> "T") @@ ("u" :> "U") @@ ("v" :> "V") @@ ("w" :> "W") @@ ("x" :> "X") @@
    ("y" :> "Y") @@ ("z" :> "Z") @@ ("α" :> "Α") @@ ("β" :> "Β") @@ ("γ" :> "Γ") @@ ("δ" :> "Δ") @@
    ("ε" :> "Ε") @@ ("ζ" :> "Ζ") @@ ("η" :> "Η") @@ ("θ" :> "Θ") @@ ("ι" :> "Ι") @@ ("κ" :> "Κ") @@
    ("λ" :> "Λ") @@ ("μ" :> "Μ") @@ ("ν" :> "Ν") @@ ("ξ" :> "Ξ") @@ ("ο" :> "Ο") @@ ("π" :> "Π") @@
    ("ρ" :> "Ρ") @@ ("σ" :> "Σ") @@ ("ς" :> "Σ") @@ ("τ" :> "Τ") @@ ("υ" :> "Υ") @@ ("φ" :> "Φ") @@
    ("χ" :> "Χ") @@ ("ψ" :> "Ψ") @@ ("ω" :> "Ω") @@ ("ά" :> "Ά") @@ ("έ" :> "Έ") @@ ("ή" :> "Ή") @@
    ("ί" :> "Ί") @@ ("ό" :> "Ό") @@ ("ύ" :> "Ύ") @@ ("ώ" :> "Ώ") @@ ("ϊ" :> "Ϊ") @@ ("ϋ" :> "Ϋ")

\* str.lower() of the ASCII capitals, the letters of the field names.
LowerMap ==
    ("A" :> "a") @@ ("B" :> "b") @@ ("C" :> "c") @@ ("D" :> "d") @@ ("E" :> "e") @@ ("F" :> "f") @@
    ("G" :> "g") @@ ("H" :> "h") @@ ("I" :> "i") @@ ("J" :> "j") @@ ("K" :> "k") @@ ("L" :> "l") @@
    ("M" :> "m") @@ ("N" :> "n") @@ ("O" :> "o") @@ ("P" :> "p") @@ ("Q" :> "q") @@ ("R" :> "r") @@
    ("S" :> "s") @@ ("T" :> "t") @@ ("U" :> "u") @@ ("V" :> "v") @@ ("W" :> "w") @@ ("X" :> "x") @@
    ("Y" :> "y") @@ ("Z" :> "z")

\* REGION_ALIASES, in the order of the dictionary: <<alias, canonical name>>.
REGION_ALIASES == <<
    <<<<"Α", "Τ", "Τ", "Ι", "Κ", "Η">>,
      <<"Α", "τ", "τ", "ι", "κ", "ή">>>>,
    <<<<"Κ", "Ε", "Ν", "Τ", "Ρ", "Ι", "Κ", "Η", " ", "Μ", "Α", "Κ", "Ε", "Δ", "Ο", "Ν", "Ι", "Α">>,
      <<"Κ", "ε", "ν", "τ", "ρ", "ι", "κ", "ή", " ", "Μ", "α", "κ", "ε", "δ", "ο", "ν", "ί", "α">>>>,
    <<<<"Δ", "Υ", "Τ", "Ι", "Κ", "Η", " ", "Μ", "Α", "Κ", "Ε", "Δ", "Ο", "Ν", "Ι", "Α">>,
      <<"Δ", "υ", "τ", "ι", "κ", "ή", " ", "Μ", "α", "κ", "ε", "δ", "ο", "ν", "ί", "α">>>>,
    <<<<"Δ", "Υ", "Τ", "Ι", "Κ", "Η", " ", "Ε", "Λ", "Λ", "Α", "Δ", "Α">>,
      <<"Δ", "υ", "τ", "ι", "κ", "ή", " ", "Ε", "λ", "λ", "ά", "δ", "α">>>>,
    <<<<"Α", "Ν", "Α", "Τ", "Ο", "Λ", "Ι", "Κ", "Η", " ", "Μ", "Α", "Κ", "Ε", "Δ", "Ο", "Ν", "Ι", "Α", " ", "Κ", "Α", "Ι", " ", "Θ", "Ρ", "Α", "Κ", "Η">>,
      <<"Α", "ν", "α", "τ", "ο", "λ", "ι", "κ", "ή", " ", "Μ", "α", "κ", "ε", "δ", "ο", "ν", "ί", "α", " ", "κ", "α", "ι", " ", "Θ", "ρ", "ά", "κ", "η">>>>,
    <<<<"Θ", "Ε", "Σ", "Σ", "Α", "Λ", "Ι", "Α">>,
      <<"Θ", "ε", "σ", "σ", "α", "λ", "ί", "α">>>>,
    <<<<"Π", "Ε", "Λ", "Ο", "Π", "Ο", "Ν", "Ν", "Η", "Σ", "Ο", "Σ">>,
      <<"Π", "ε", "λ", "ο", "π", "ό", "ν", "ν", "η", "σ", "ο", "ς">>>>,
    <<<<"Η", "Π", "Ε", "Ι", "Ρ", "Ο", "Σ">>,
      <<"Ή", "π", "ε", "ι", "ρ", "ο", "ς">>>>,
    <<<<"Ι", "Ο", "Ν", "Ι", "Α", " ", "Ν", "Η", "Σ", "Ι", "Α">>,
      <<"Ι", "ό", "ν", "ι", "α", " ", "Ν", "η", "σ", "ι", "ά">>>>,
    <<<<"Ν", "Ο", "Τ", "Ι", "Ο", " ", "Α", "Ι", "Γ", "Α", "Ι", "Ο">>,
      <<"Ν", "ό", "τ", "ι", "ο", " ", "Α", "ι", "γ", "α", "ί", "ο">>>>,
    <<<<"Β", "Ο", "Ρ", "Ε", "Ι", "Ο", " ", "Α", "Ι", "Γ", "Α", "Ι", "Ο">>,
      <<"Β", "ό", "ρ", "ε", "ι", "ο", " ", "Α", "ι", "γ", "α", "ί", "ο">>>>,
    <<<<"Σ", "Τ", "Ε", "Ρ", "Ε", "Α", " ", "Ε", "Λ", "Λ", "Α", "Δ", "Α">>,
      <<"Σ", "τ", "ε", "ρ", "ε", "ά", " ", "Ε", "λ", "λ", "ά", "δ", "α">>>>,
    <<<<"Κ", "Ρ", "Η", "Τ", "Η">>,
      <<"Κ", "ρ", "ή", "τ", "η">>>>
>>

\* REGION_KEYWORDS: <<needle, region>>.
REGION_KEYWORDS == <<
    <<<<"Α", "Θ", "Η", "Ν">>, <<"Α", "τ", "τ", "ι", "κ", "ή">>>>,
    <<<<"Π", "Ε", "Ι", "Ρ">>, <<"Α", "τ", "τ", "ι", "κ", "ή">>>>,
    <<<<"Μ", "Α", "Ρ", "Ο", "Υ", "Σ", "Ι">>, <<"Α", "τ", "τ", "ι", "κ", "ή">>>>,
    <<<<"Θ", "Ε", "Σ", "Σ", "Α", "Λ", "Ο", "Ν", "Ι", "Κ">>, <<"Κ", "ε", "ν", "τ", "ρ", "ι", "κ", "ή", " ", "Μ", "α", "κ", "ε", "δ", "ο", "ν", "ί", "α">>>>,
    <<<<"Σ", "Ε", "Ρ", "Ρ">>, <<"Κ", "ε", "ν", "τ", "ρ", "ι", "κ", "ή", " ", "Μ", "α", "κ", "ε", "δ", "ο", "ν", "ί", "α">>>>,
    <<<<"Κ", "Α", "Β", "Α", "Λ">>, <<"Α", "ν", "α", "τ", "ο", "λ", "ι", "κ", "ή", " ", "Μ", "α", "κ", "ε", "δ", "ο", "ν", "ί", "α", " ", "κ", "α", "ι", " ", "Θ", "ρ", "ά", "κ", "η">>>>,
    <<<<"Κ", "Ο", "Μ", "Ο", "Τ", "Η", "Ν">>, <<"Α", "ν", "α", "τ", "ο", "λ", "ι", "κ", "ή", " ", "Μ", "α", "κ", "ε", "δ", "ο", "ν", "ί", "α", " ", "κ", "α", "ι", " ", "Θ", "ρ", "ά", "κ", "η">>>>,
    <<<<"Ξ", "Α", "Ν", "Θ">>, <<"Α", "ν", "α", "τ", "ο", "λ", "ι", "κ", "ή", " ", "Μ", "α", "κ", "ε", "δ", "ο", "ν", "ί", "α", " ", "κ", "α", "ι", " ", "Θ", "ρ", "ά", "κ", "η">>>>,
    <<<<"Π", "Α", "Τ", "Ρ">>, <<"Δ", "υ", "τ", "ι", "κ", "ή", " ", "Ε", "λ", "λ", "ά", "δ", "α">>>>,
    <<<<"Α", "Γ", "Ρ", "Ι", "Ν">>, <<"Δ", "υ", "τ", "ι", "κ", "ή", " ", "Ε", "λ", "λ", "ά", "δ", "α">>>>,
    <<<<"Ι", "Ω", "Α", "Ν", "Ν">>, <<"Ή", "π", "ε", "ι", "ρ", "ο", "ς">>>>,
    <<<<"Λ", "Α", "Ρ", "Ι", "Σ">>, <<"Θ", "ε", "σ", "σ", "α", "λ", "ί", "α">>>>,
    <<<<"Β", "Ο", "Λ">>, <<"Θ", "ε", "σ", "σ", "α", "λ", "ί", "α">>>>,
    <<<<"Τ", "Ρ", "Ι", "Κ">>, <<"Θ", "ε", "σ", "σ", "α", "λ", "ί", "α">>>>,
    <<<<"Κ", "Ε", "Ρ", "Κ", "Υ", "Ρ">>, <<"Ι", "ό", "ν", "ι", "α", " ", "Ν", "η", "σ", "ι", "ά">>>>,
    <<<<"Ζ", "Α", "Κ", "Υ", "Ν">>, <<"Ι", "ό", "ν", "ι", "α", " ", "Ν", "η", "σ", "ι", "ά">>>>,
    <<<<"Λ", "Ε", "Υ", "Κ", "Α", "Δ">>, <<"Ι", "ό", "ν", "ι", "α", " ", "Ν", "η", "σ", "ι", "ά">>>>,
    <<<<"Ρ", "Ο", "Δ">>, <<"Ν", "ό", "τ", "ι", "ο", " ", "Α", "ι", "γ", "α", "ί", "ο">>>>,
    <<<<"Σ", "Υ", "Ρ">>, <<"Ν", "ό", "τ", "ι", "ο", " ", "Α", "ι", "γ", "α", "ί", "ο">>>>,
    <<<<"Κ", "Ω">>, <<"Ν", "ό", "τ", "ι", "ο", " ", "Α", "ι", "γ", "α", "ί", "ο">>>>,
    <<<<"Μ", "Υ", "Τ", "Ι", "Λ">>, <<"Β", "ό", "ρ", "ε", "ι", "ο", " ", "Α", "ι", "γ", "α", "ί", "ο">>>>,
    <<<<"Χ", "Ι">>, <<"Β", "ό", "ρ", "ε", "ι", "ο", " ", "Α", "ι", "γ", "α", "ί", "ο">>>>,
    <<<<"Η", "Ρ", "Α", "Κ", "Λ", "Ε", "Ι">>, <<"Κ", "ρ", "ή", "τ", "η">>>>,
    <<<<"Χ", "Α", "Ν", "Ι">>, <<"Κ", "ρ", "ή", "τ", "η">>>>,
    <<<<"Ρ", "Ε", "Θ", "Υ", "Μ">>, <<"Κ", "ρ", "ή", "τ", "η">>>>,
    <<<<"Λ", "Α", "Σ", "Ι", "Θ">>, <<"Κ", "ρ", "ή", "τ", "η">>>>,
    <<<<"Τ", "Ρ", "Ι", "Π", "Ο", "Λ">>, <<"Π", "ε", "λ", "ο", "π", "ό", "ν", "ν", "η", "σ", "ο", "ς">>>>,
    <<<<"Κ", "Α", "Λ", "Α", "Μ", "Α", "Τ">>, <<"Π", "ε", "λ", "ο", "π", "ό", "ν", "ν", "η", "σ", "ο", "ς">>>>,
    <<<<"Κ", "Ο", "Ρ", "Ι", "Ν", "Θ">>, <<"Π", "ε", "λ", "ο", "π", "ό", "ν", "ν", "η", "σ", "ο", "ς">>>>,
    <<<<"Κ", "Α", "Ρ", "Δ", "Ι", "Τ">>, <<"Θ", "ε", "σ", "σ", "α", "λ", "ί", "α">>>>,
    <<<<"Κ", "Ο", "Ζ", "Α", "Ν">>, <<"Δ", "υ", "τ", "ι", "κ", "ή", " ", "Μ", "α", "κ", "ε", "δ", "ο", "ν", "ί", "α">>>>,
    <<<<"Φ", "Λ", "Ω", "Ρ", "Ι", "Ν">>, <<"Δ", "υ", "τ", "ι", "κ", "ή", " ", "Μ", "α", "κ", "ε", "δ", "ο", "ν", "ί", "α">>>>
>>

\* The name returned for an unknown region.
UnknownRegion == <<"Ά", "γ", "ν", "ω", "σ", "τ", "η">>

\* The word searched in the field names.
RegionWord == <<"r", "e", "g", "i", "o", "n">>

OrganizationUidKey == <<"o", "r", "g", "a", "n", "i", "z", "a", "t", "i", "o", "n", "U", "i", "d">>

\* ("organizationName", "organizationLabel", "subject")
KeywordFields == <<<<"o", "r", "g", "a", "n", "i", "z", "a", "t", "i", "o", "n", "N", "a", "m", "e">>,
                   <<"o", "r", "g", "a", "n", "i", "z", "a", "t", "i", "o", "n", "L", "a", "b", "e", "l">>,
                   <<"s", "u", "b", "j", "e", "c", "t">>>>

\* value.strip()
RECURSIVE StripLeft(_)
StripLeft(s) == IF s # <<>> /\ Head(s) = " " THEN StripLeft(Tail(s)) ELSE s

RECURSIVE StripRight(_)
StripRight(s) ==
    IF s # <<>> /\ s[Len(s)] = " " THEN StripRight(SubSeq(s, 1, Len(s) - 1)) ELSE s

Strip(s) == StripRight(StripLeft(s))

\* value.upper()
Upper(s) ==
    [i \in 1 .. Len(s) |-> IF s[i] \in DOMAIN UpperMap THEN UpperMap[s[i]] ELSE s[i]]

\* key.lower()
Lower(s) ==
    [i \in 1 .. Len(s) |-> IF s[i] \in DOMAIN LowerMap THEN LowerMap[s[i]] ELSE s[i]]

\* needle in hay
Contains(hay, needle) ==
    \E i \in 1 .. (Len(hay) - Len(needle) + 1) :
        SubSeq(hay, i, i + Len(needle) - 1) = needle

\* The smallest element of a non-empty set of integers.
MinOf(S) == CHOOSE x \in S : \A y \in S : x <= y

\* isinstance(value, str): a cell is <<>> (None, NaN) or <<characters>>.
IsStr(cell) == cell # <<>>

normalize_region(value) ==
    LET upper == Upper(Strip(value))
        hits == {i \in 1 .. Len(REGION_ALIASES) : Contains(upper, REGION_ALIASES[i][1])}
    IN IF upper = <<>> THEN UnknownRegion
       ELSE IF hits # {} THEN REGION_ALIASES[MinOf(hits)][2]
       ELSE IF Strip(value) # <<>> THEN Strip(value) ELSE UnknownRegion

\* row.get(key) of a row <<[key, value], ...>> in column order.
RowGet(r, key) ==
    LET at == {i \in 1 .. Len(r) : r[i].key = key}
    IN IF at = {} THEN <<>> ELSE r[MinOf(at)].value

\* The first loop of infer_region: the positions of the fields whose name
\* contains "region" and whose value is a non-blank string.
RegionFields(r) ==
    {i \in 1 .. Len(r) :
        /\ Contains(Lower(r[i].key), RegionWord)
        /\ IsStr(r[i].value)
        /\ Strip(r[i].value[1]) # <<>>}

\* The inner loop over REGION_KEYWORDS on one field: the positions of the
\* needles the upper-cased value contains.
KeywordHits(r, field) ==
    IF IsStr(RowGet(r, field))
    THEN {k \in 1 .. Len(REGION_KEYWORDS) :
            Contains(Upper(RowGet(r, field)[1]), REGION_KEYWORDS[k][1])}
    ELSE {}

\* The loop over the fields: the region of the first needle of the first
\* field that contains one.
RECURSIVE KeywordRegion(_, _)
KeywordRegion(r, fields) ==
    IF fields = <<>> THEN UnknownRegion
    ELSE IF KeywordHits(r, Head(fields)) # {}
         THEN REGION_KEYWORDS[MinOf(KeywordHits(r, Head(fields)))][2]
         ELSE KeywordRegion(r, Tail(fields))

\* Mutant: the keywords are tried before the region-named fields.
InferRegionKeywordsFirst(r, mp) ==
    IF IsStr(RowGet(r, OrganizationUidKey)) /\ RowGet(r, OrganizationUidKey)[1] \in DOMAIN mp
    THEN mp[RowGet(r, OrganizationUidKey)[1]]
    ELSE IF KeywordRegion(r, KeywordFields) # UnknownRegion
         THEN KeywordRegion(r, KeywordFields)
    ELSE IF RegionFields(r) # {}
         THEN normalize_region(r[MinOf(RegionFields(r))].value[1])
    ELSE UnknownRegion

infer_region(r, mp) ==
    IF IsStr(RowGet(r, OrganizationUidKey)) /\ RowGet(r, OrganizationUidKey)[1] \in DOMAIN mp
    THEN mp[RowGet(r, OrganizationUidKey)[1]]
    ELSE IF RegionFields(r) # {}
         THEN normalize_region(r[MinOf(RegionFields(r))].value[1])
    ELSE KeywordRegion(r, KeywordFields)

\* (value or "").strip() of a csv cell
CsvText(cell) == IF cell = <<>> THEN <<>> ELSE Strip(cell[1])

\* The loop of load_region_mapping over the rows of the csv file.
RECURSIVE LoadRows(_, _)
LoadRows(rs, mp) ==
    IF rs = <<>> THEN mp
    ELSE LET org_uid == CsvText(Head(rs).organizationUid)
             reg == CsvText(Head(rs).region)
         IN IF org_uid # <<>> /\ reg # <<>>
            THEN LoadRows(Tail(rs),
                          [k \in DOMAIN mp \cup {org_uid} |->
                              IF k = org_uid THEN normalize_region(reg) ELSE mp[k]])
            ELSE LoadRows(Tail(rs), mp)

\* load_region_mapping: no mapping when the file does not exist.
load_region_mapping(file) == IF file.exists THEN LoadRows(file.rows, <<>>) ELSE <<>>

(***************************************************************************)
(* slowest_decisions (DM) and compute_outliers (DMD)                       *)
(***************************************************************************)
\* Row a comes strictly before row b in sort_values("delay_days",
\* ascending=False): the larger delay first, NaN last.
DelayBefore(a, b) ==
    /\ ~IsNa(a["delay_days"])
    /\ (IsNa(b["delay_days"]) \/ RLt(b["delay_days"][1], a["delay_days"][1]))

RECURSIVE InsertRow(_, _)
InsertRow(x, sorted) ==
    IF sorted = <<>> THEN <<x>>
    ELSE IF DelayBefore(x, Head(sorted)) THEN <<x>> \o sorted
    ELSE <<Head(sorted)>> \o InsertRow(x, Tail(sorted))

\* Rows with equal delays stay in the order they have in rs.
RECURSIVE StableSort(_)
StableSort(rs) ==
    IF rs = <<>> THEN <<>>
    ELSE InsertRow(rs[Len(rs)], StableSort(SubSeq(rs, 1, Len(rs) - 1)))

Reverse(sq) == [i \in 1 .. Len(sq) |-> sq[Len(sq) + 1 - i]]

\* The orders the default (unstable) sort may leave rows of equal delay in.
SortKinds == {"as given", "reversed"}

\* Mutant: the frame is not sorted.
SortValuesNone(rs, kind) == rs

\* df.sort_values("delay_days", ascending=False)
SortValues(rs, kind) ==
    IF kind = "as given" THEN StableSort(rs) ELSE StableSort(Reverse(rs))

\* drop_duplicates(subset=["ada"]): the first row of each ada is kept.
DropDuplicates(rs) ==
    SelectSeq([i \in 1 .. Len(rs) |-> [at |-> i, r |-> rs[i]]],
              LAMBDA e : \A j \in 1 .. (e.at - 1) : rs[j]["ada"] # e.r["ada"])

\* keep_columns of slowest_decisions, cols of compute_outliers.
KeepColumns(im) ==
    {"ada", "organizationUid", "organizationName", "decisionTypeUid",
     "issueDate", "submissionTimestamp", "documentUrl", "delay_days", "subject"}
    \cup (IF im = "DM" THEN {"organizationLabel"} ELSE {})

\* limit of slowest_decisions, head(10) of compute_outliers.
OutlierLimit == 10

\* [existing].head(limit)
Outliers(im, df, kind) ==
    IF Empty(df) \/ (im = "DM" /\ "delay_days" \notin df.columns) THEN <<>>
    ELSE LET subset == DropDuplicates(SortValues(df.rows, kind))
             existing == KeepColumns(im) \cap df.columns
         IN [i \in 1 .. Min(OutlierLimit, Len(subset)) |->
               [c \in existing |-> subset[i].r[c]]]

(***************************************************************************)
(* build_mix (DM) and compute_mix (DMD)                                    *)
(***************************************************************************)
\* DECISION_LABELS of DM, decision_map of load_decision_labels of DMD.
DECISION_LABELS ==
    ("Α.1" :> "Regulatory act") @@
    ("Α.2" :> "Internal regulation") @@
    ("Β.1.1" :> "Budget commitment") @@
    ("Β.1.2" :> "Budget amendment") @@
    ("Β.1.3" :> "Payment warrant") @@
    ("Β.2.1" :> "Expenditure approval") @@
    ("Β.2.2" :> "Payment finalization") @@
    ("Γ.2" :> "Personnel change") @@
    ("Δ.1" :> "Procurement assignment") @@
    ("Δ.2.2" :> "Contract award") @@
    ("2.4.7.1" :> "Other administrative act")

\* decision_map.update(json.load(handle)): entries of the file replace and
\* extend the defaults; no file or invalid JSON leaves the defaults.
load_decision_labels(file) ==
    IF file.exists /\ file.valid
    THEN [k \in DOMAIN DECISION_LABELS \cup DOMAIN file.labels |->
            IF k \in DOMAIN file.labels THEN file.labels[k] ELSE DECISION_LABELS[k]]
    ELSE DECISION_LABELS

\* The distinct values of the cells, in the order of their first appearance.
RECURSIVE Distinct(_)
Distinct(cells) ==
    IF cells = <<>> THEN <<>>
    ELSE LET front == Distinct(SubSeq(cells, 1, Len(cells) - 1))
             last == cells[Len(cells)]
         IN IF IsNa(last) \/ \E i \in 1 .. Len(front) : front[i] = last[1]
            THEN front ELSE Append(front, last[1])

CountOfValue(cells, v) == Cardinality({i \in 1 .. Len(cells) : cells[i] = <<v>>})

RECURSIVE InsertByCount(_, _, _)
InsertByCount(v, sorted, cells) ==
    IF sorted = <<>> THEN <<v>>
    ELSE IF CountOfValue(cells, v) > CountOfValue(cells, Head(sorted))
         THEN <<v>> \o sorted
    ELSE <<Head(sorted)>> \o InsertByCount(v, Tail(sorted), cells)

RECURSIVE SortByCount(_, _)
SortByCount(vs, cells) ==
    IF vs = <<>> THEN <<>>
    ELSE InsertByCount(vs[Len(vs)], SortByCount(SubSeq(vs, 1, Len(vs) - 1), cells), cells)

\* Series.value_counts(normalize=True): the missing cells are dropped, the
\* values come by decreasing count (equal counts in an order the sort
\* leaves open), each with its share of the cells that are not missing.
ValueCounts(cells, kind) ==
    LET vs == IF kind = "as given" THEN Distinct(cells) ELSE Reverse(Distinct(cells))
        order == SortByCount(vs, cells)
    IN [i \in 1 .. Len(order) |->
          [code |-> order[i],
           share |-> Rat(CountOfValue(cells, order[i]), Len(cells) - NumNa(cells))]]

\* limit of build_mix, head(5) of compute_mix.
MixLimit == 5

\* dict.get(code, "")
LabelOf(labels, code) == IF code \in DOMAIN labels THEN labels[code] ELSE ""

\* build_mix / compute_mix: <<code, label, share in percent, one decimal>>.
Mix(df, labels, kind) ==
    IF Empty(df) \/ "decisionTypeUid" \notin df.columns THEN <<>>
    ELSE LET vc == ValueCounts(Column(df, "decisionTypeUid"), kind)
         IN [i \in 1 .. Min(MixLimit, Len(vc)) |->
               <<vc[i].code, LabelOf(labels, vc[i].code),
                 RoundTo(Fl(RMul(vc[i].share, RInt(100))), 1)>>]

\* compute_mix: unknown_codes, the codes of the mix without a label, written
\* to unmapped_codes.csv when there is one; build_mix records none.
UnknownCodes(im, df, mx) ==
    IF im = "DM" THEN <<>>
    ELSE [i \in 1 .. Len(SelectSeq(mx, LAMBDA e : e[2] = "")) |->
            SelectSeq(mx, LAMBDA e : e[2] = "")[i][1]]

(***************************************************************************)
(* pct_change                                                              *)
(*                                                                         *)
(* A Python value is [t, r]: t is "None", "int", "float" or "nan" (the      *)
(* float NaN) and r the rational value of an int or a float.                *)
(***************************************************************************)
PyNone == [t |-> "None", r |-> RInt(0)]
PyNaN == [t |-> "nan", r |-> RInt(0)]
PyInt(k) == [t |-> "int", r |-> RInt(k)]
PyFloat(r) == [t |-> "float", r |-> r]

PyOk(v) == [exc |-> "", v |-> v]
PyRaise(e) == [exc |-> e, v |-> PyNone]

\* x == 0 in Python
PyEqZero(x) == x.t \in {"int", "float"} /\ x.r.n = 0

\* pd.isna(x)
PdIsNa(x) == x.t \in {"None", "nan"}

\* isinstance(x, float) and math.isnan(x)
FloatIsNan(x) == x.t \in {"float", "nan"} /\ x.t = "nan"

\* (a - b) / b * 100.0 with Python's exceptions: an operand None raises
\* TypeError, a zero divisor raises ZeroDivisionError, NaN propagates.
PctFormula(a, b) ==
    IF a.t = "None" \/ b.t = "None" THEN PyRaise("TypeError")
    ELSE IF PyEqZero(b) THEN PyRaise("ZeroDivisionError")
    ELSE IF a.t = "nan" \/ b.t = "nan" THEN PyOk(PyNaN)
    ELSE PyOk(PyFloat(RMul(RDiv(RSub(a.r, b.r), b.r), RInt(100))))

\* Mutant: the guard without the test for zero.
GuardDMNoZero(p) == p.t = "None" \/ PdIsNa(p)

\* DM: previous in (0, None) or pd.isna(previous)
GuardDM(p) == (PyEqZero(p) \/ p.t = "None") \/ PdIsNa(p)

\* DMD: prev in (None, 0) or (isinstance(prev, float) and math.isnan(prev))
GuardDMD(p) == (p.t = "None" \/ PyEqZero(p)) \/ FloatIsNan(p)

PctChangeDM(c, p) == IF GuardDM(p) THEN PyOk(PyNaN) ELSE PctFormula(c, p)

PctChangeDMD(c, p) == IF GuardDMD(p) THEN PyOk(PyNaN) ELSE PctFormula(c, p)

(***************************************************************************)
(* Steps of the specifications of single functions                         *)
(***************************************************************************)
\* main: the normalisation of the frame of one window.
NormalizeStep ==
    /\ pc = "frame_fetched"
    /\ LET r == NormalizeFrame(frame)
       IN /\ frame' = r.df
          /\ pc' = IF r.exc = "" THEN "normalized" ELSE "aborted"
    /\ UNCHANGED <<impl, runVars, toolVars, batch, kpi, pctVars, aggVars>>

\* main: compute_kpis on the normalised frame.
ComputeKpisStep ==
    /\ pc = "normalized"
    /\ kpi' = ComputeKpisOf(frame)
    /\ pc' = IF kpi'.exc = "" THEN "kpi_done" ELSE "aborted"
    /\ UNCHANGED <<impl, runVars, toolVars, batch, frame, pctVars, aggVars>>

\* render_html: pct_change(current, previous) of either script.
PctChangeStep ==
    /\ pc = "pct_start"
    /\ pctDM' = PctChangeDM(cur, prev)
    /\ pctDMD' = PctChangeDMD(cur, prev)
    /\ pc' = "pct_done"
    /\ UNCHANGED <<impl, runVars, toolVars, kpiVars, cur, prev, aggVars>>

\* main: compute_recent_months(ytd) and compute_trend_stats(ytd).
TrendStep ==
    /\ pc = "normalized"
    /\ recent' = ComputeRecentMonths(frame)
    /\ trend' = ComputeTrendStats(frame)
    /\ pc' = "trend_done"
    /\ UNCHANGED <<impl, runVars, toolVars, kpiVars, pctVars, decision_labels, mapping,
                   mix, unknown_codes, outliers, region, row, region_map_file>>

\* main: region_mapping = load_region_mapping().
LoadRegionMappingStep ==
    /\ pc = "region_start"
    /\ mapping' = load_region_mapping(region_map_file)
    /\ pc' = "mapping_loaded"
    /\ UNCHANGED <<impl, runVars, toolVars, kpiVars, pctVars, decision_labels, recent,
                   trend, mix, unknown_codes, outliers, region, row,
                   region_map_file>>

\* enrich_regions: infer_region on one row of the frame.
InferRegionStep ==
    /\ pc = "mapping_loaded"
    /\ region' = infer_region(row, mapping)
    /\ pc' = "region_done"
    /\ UNCHANGED <<impl, runVars, toolVars, kpiVars, pctVars, decision_labels, mapping,
                   recent, trend, mix, unknown_codes, outliers, row,
                   region_map_file>>

\* main: slowest_decisions(current_df) / compute_outliers(current).
OutliersStep ==
    /\ pc = "normalized"
    /\ \E kind \in SortKinds : outliers' = Outliers(impl, frame, kind)
    /\ pc' = "outliers_done"
    /\ UNCHANGED <<impl, runVars, toolVars, kpiVars, pctVars, decision_labels, mapping,
                   recent, trend, mix, unknown_codes, region, row,
                   region_map_file>>

\* main: build_mix(current_df) / compute_mix(current, decision_labels).
MixStep ==
    /\ pc = "normalized"
    /\ \E kind \in SortKinds :
          /\ mix' = Mix(frame, decision_labels, kind)
          /\ unknown_codes' = UnknownCodes(impl, frame, mix')
    /\ pc' = "mix_done"
    /\ UNCHANGED <<impl, runVars, toolVars, kpiVars, pctVars, decision_labels, mapping,
                   recent, trend, outliers, region, row, region_map_file>>

InitKpiVars ==
    /\ batch = <<>>
    /\ frame = DataFrameOf(<<>>)
    /\ kpi = NoKpis

InitPctVars ==
    /\ cur = PyNone
    /\ prev = PyNone
    /\ pctDM = PyRaise("none")
    /\ pctDMD = PyRaise("none")

\* Nothing aggregated yet.
NotRun == <<"not run">>

InitAggVars ==
    /\ decision_labels = <<>>
    /\ mapping = <<>>
    /\ recent = NotRun
    /\ trend = NotRun
    /\ mix = NotRun
    /\ unknown_codes = NotRun
    /\ outliers = NotRun
    /\ region = NotRun
    /\ row = <<>>
    /\ region_map_file = [exists |-> FALSE, rows |-> <<>>]

InitToolVars ==
    /\ months = 6
    /\ regional = NotRun
    /\ limit = 0
    /\ no_csv = FALSE
    /\ written = <<>>
    /\ retries = 0
    /\ attempt = 0
    /\ outcome = "none"

InitPure == InitKpiVars /\ InitPctVars /\ InitAggVars /\ InitToolVars

(***************************************************************************)
(* Specifications                                                          *)
(***************************************************************************)
InitNet(mode) ==
    /\ srvMode = mode
    /\ srvTotal = 0
    /\ reqlog = <<>>
    /\ nreq = 0
    /\ lastLen = -1
    /\ failReq = 0

InitMainVars ==
    /\ ret = NoResult
    /\ frames = <<>>
    /\ computed = {}
    /\ kpiCounts = <<>>
    /\ artifacts = {}

InitLocals ==
    /\ remaining = FreshLocals.remaining
    /\ page = 0
    /\ rows = 0
    /\ dframes = <<>>
    /\ ridx = 1

\* Targets of the runs of main: a February of a leap year, a month after it,
\* and a January.
MainTargets == {<<2024, 2>>, <<2024, 3>>, <<2025, 1>>}

Init ==
    /\ impl \in Impls
    /\ pc = "start"
    /\ \E t \in MainTargets : year = t[1] /\ month = t[2]
    /\ windows = NoWindows
    /\ caller = "main"
    /\ chunk = FALSE
    /\ ranges = <<>>
    /\ InitLocals
    /\ InitNet("list")
    /\ InitMainVars
    /\ InitPure

Next ==
    \/ DeriveWindows
    \/ FetchExportPage
    \/ FetchRangePage
    \/ ComputeDigest
    \/ WriteOutputs

Spec == Init /\ [][Next]_vars

InitWindows ==
    /\ impl \in Impls
    /\ pc = "start"
    /\ year \in Years
    /\ month \in Months
    /\ windows = NoWindows
    /\ caller = "main"
    /\ chunk = FALSE
    /\ ranges = <<>>
    /\ InitLocals
    /\ InitNet("list")
    /\ InitMainVars
    /\ InitPure

NextWindows == DeriveWindows

SpecWindows == InitWindows /\ [][NextWindows]_vars

\* First day of the ranges of the direct fetch calls.
FetchStart == Date(2024, 2, 28)

InitFetch ==
    /\ impl \in Impls
    /\ pc = FetchPc
    /\ year = 2024
    /\ month = 2
    /\ windows = NoWindows
    /\ caller = "direct"
    /\ chunk \in (IF impl = "DMD" THEN BOOLEAN ELSE {FALSE})
    /\ \E k \in 0 .. (MaxDays - 1) :
         ranges = RangesOf(impl, FetchStart, AddDays(FetchStart, k), chunk)
    /\ InitLocals
    /\ \E mode \in {"bounded", "any", "full"} : InitNet(mode)
    /\ InitMainVars
    /\ InitPure

NextFetch ==
    \/ FetchExportPage
    \/ FetchRangePage

SpecFetch == InitFetch /\ [][NextFetch]_vars

\* The loops of the fetchers keep running: an iteration that can be taken is
\* taken.
SpecFetchLive == SpecFetch /\ WF_vars(NextFetch)

\* Run variables of the specifications of single functions.
InitIdleRun ==
    /\ year = 2024
    /\ month = 3
    /\ windows = NoWindows
    /\ caller = "main"
    /\ chunk = FALSE
    /\ ranges = <<>>
    /\ InitLocals
    /\ InitNet("list")
    /\ InitMainVars

\* Largest number of records of a batch of SpecKpi.
MaxBatch == 3

T0 == Str("05/03/2024 00:00:00")
T0h == Str("05/03/2024 12:00:00")
T1 == Str("06/03/2024 00:00:00")
T2 == Str("07/03/2024 00:00:00")
T3 == Str("08/03/2024 00:00:00")
Malformed == Str("2024-03-05T00:00:00")

\* The records the batches of SpecKpi are made of.
RecA == ("issueDate" :> T0) @@ ("submissionTimestamp" :> T1)
        @@ ("publishTimestamp" :> T1) @@ ("organizationLabel" :> Str("Org"))
RecB == ("issueDate" :> T0) @@ ("submissionTimestamp" :> T3)
        @@ ("publishTimestamp" :> Null) @@ ("organizationLabel" :> Null)
RecC == ("issueDate" :> T0) @@ ("submissionTimestamp" :> T2)
        @@ ("organizationLabel" :> Str("Org"))
        @@ ("organizationName" :> Str("Org"))
RecD == ("issueDate" :> Malformed) @@ ("submissionTimestamp" :> T1)
        @@ ("publishTimestamp" :> T1) @@ ("organizationName" :> Str("Org"))
RecE == ("issueDate" :> T1) @@ ("submissionTimestamp" :> T0)
        @@ ("organizationLabel" :> Null) @@ ("organizationName" :> Str("Org"))
RecF == ("submissionTimestamp" :> T1) @@ ("publishTimestamp" :> Null)
RecG == ("issueDate" :> T0) @@ ("organizationLabel" :> Str("Org"))
RecH == ("issueDate" :> T0) @@ ("submissionTimestamp" :> T0h)
        @@ ("publishTimestamp" :> T1) @@ ("organizationLabel" :> Str("Org"))
        @@ ("organizationName" :> Null)

RecordUniverse == {RecA, RecB, RecC, RecD, RecE, RecF, RecG, RecH}

Batches == UNION {[1 .. n -> RecordUniverse] : n \in 0 .. MaxBatch}

InitKpi ==
    /\ impl \in Impls
    /\ pc = "frame_fetched"
    /\ InitIdleRun
    /\ InitToolVars
    /\ batch \in Batches
    /\ frame = DataFrameOf(batch)
    /\ kpi = NoKpis
    /\ InitPctVars
    /\ InitAggVars

NextKpi ==
    \/ NormalizeStep
    \/ ComputeKpisStep

SpecKpi == InitKpi /\ [][NextKpi]_vars

\* What a month of the year-to-date batch holds: no record, one record
\* with delay 1 or two records with delays 1 and 3.
MonthContents == {"none", "one", "two"}

\* One more record of the batch: none, one whose issuance timestamp is
\* malformed, or one of January whose submission timestamp is malformed.
Extras == {"none", "undated", "undelayed"}

TrendRecord(id, m, issueDay, subm) ==
    ("ada" :> Str(id)) @@ ("issueDate" :> Str(MonthTs(issueDay, m)))
    @@ ("submissionTimestamp" :> subm)

RecordsOfMonth(m, c) ==
    LET id == "ADA" \o ToString(m)
    IN CASE c = "none" -> <<>>
         [] c = "one" -> <<TrendRecord(id \o "a", m, 5, Str(MonthTs(6, m)))>>
         [] c = "two" -> <<TrendRecord(id \o "a", m, 5, Str(MonthTs(6, m))),
                           TrendRecord(id \o "b", m, 5, Str(MonthTs(8, m)))>>
         [] c = "nan" -> <<TrendRecord(id \o "n", m, 5, Malformed)>>

\* A record whose issuance timestamp is malformed.
UndatedRecord ==
    ("ada" :> Str("ADA0")) @@ ("issueDate" :> Malformed)
    @@ ("submissionTimestamp" :> Str(MonthTs(6, 1)))

\* The batch, most recent month first.
RECURSIVE TrendBatch(_, _)
TrendBatch(contents, m) ==
    IF m = 0 THEN <<>>
    ELSE RecordsOfMonth(m, contents[m]) \o TrendBatch(contents, m - 1)

InitTrend ==
    /\ impl = "DMD"
    /\ pc = "frame_fetched"
    /\ InitIdleRun
    /\ InitToolVars
    /\ \E contents \in [1 .. MaxMonths -> MonthContents], extra \in Extras :
          batch = TrendBatch(contents, MaxMonths)
                    \o (CASE extra = "none" -> <<>>
                           [] extra = "undated" -> <<UndatedRecord>>
                           [] extra = "undelayed" -> RecordsOfMonth(1, "nan"))
    /\ frame = DataFrameOf(batch)
    /\ kpi = NoKpis
    /\ InitPctVars
    /\ InitAggVars

NextTrend ==
    \/ NormalizeStep
    \/ TrendStep

SpecTrend == InitTrend /\ [][NextTrend]_vars

\* The organizationUid column of the row: absent, missing value, two identifiers.
UidOptions ==
    {<<>>,
     <<[key |-> <<"o", "r", "g", "a", "n", "i", "z", "a", "t", "i", "o", "n", "U", "i", "d">>, value |-> <<>>]>>,
     <<[key |-> <<"o", "r", "g", "a", "n", "i", "z", "a", "t", "i", "o", "n", "U", "i", "d">>, value |-> <<<<"6", "1", "1", "4">>>>]>>,
     <<[key |-> <<"o", "r", "g", "a", "n", "i", "z", "a", "t", "i", "o", "n", "U", "i", "d">>, value |-> <<<<"9", "9">>>>]>>}

\* The organizationName column of the row.
NameOptions ==
    {<<>>,
     <<[key |-> <<"o", "r", "g", "a", "n", "i", "z", "a", "t", "i", "o", "n", "N", "a", "m", "e">>, value |-> <<>>]>>,
     <<[key |-> <<"o", "r", "g", "a", "n", "i", "z", "a", "t", "i", "o", "n", "N", "a", "m", "e">>, value |-> <<<<"Δ", "Η", "Μ", "Ο", "Σ", " ", "Π", "Α", "Τ", "Ρ", "Ε", "Ω", "Ν", " ", "Κ", "Α", "Ι", " ", "Α", "Θ", "Η", "Ν", "Α", "Ι", "Ω", "Ν">>>>]>>,
     <<[key |-> <<"o", "r", "g", "a", "n", "i", "z", "a", "t", "i", "o", "n", "N", "a", "m", "e">>, value |-> <<<<"Υ", "π", "ο", "υ", "ρ", "γ", "ε", "ί", "ο", " ", "Υ", "γ", "ε", "ί", "α", "ς">>>>]>>}

\* The organizationLabel column of the row.
LabelOptions ==
    {<<>>,
     <<[key |-> <<"o", "r", "g", "a", "n", "i", "z", "a", "t", "i", "o", "n", "L", "a", "b", "e", "l">>, value |-> <<<<"Δ", "Η", "Μ", "Ο", "Σ", " ", "Χ", "Α", "Ν", "Ι", "Ω", "Ν">>>>]>>}

\* The subject column of the row.
SubjectOptions ==
    {<<>>,
     <<[key |-> <<"s", "u", "b", "j", "e", "c", "t">>, value |-> <<<<"Ε", "Γ", "Κ", "Ρ", "Ι", "Σ", "Η", " ", "Δ", "Α", "Π", "Α", "Ν", "Η", "Σ", " ", "Λ", "Α", "Ρ", "Ι", "Σ", "Α">>>>]>>}

\* The region-named columns of the row.
RegionFieldOptions ==
    {<<>>,
     <<[key |-> <<"R", "e", "g", "i", "o", "n">>, value |-> <<<<" ", " ">>>>]>>,
     <<[key |-> <<"r", "e", "g", "i", "o", "n", "N", "a", "m", "e">>, value |-> <<<<" ", "Π", "ε", "ρ", "ι", "φ", "έ", "ρ", "ε", "ι", "α", " ", "Κ", "Ρ", "Η", "Τ", "Η", "Σ", " ">>>>]>>,
     <<[key |-> <<"r", "e", "g", "i", "o", "n">>, value |-> <<<<"Κ", "ύ", "π", "ρ", "ο", "ς">>>>]>>,
     <<[key |-> <<"R", "E", "G", "I", "O", "N">>, value |-> <<>>],
      [key |-> <<"g", "e", "o", "R", "e", "g", "i", "o", "n">>, value |-> <<<<"η", "π", "ε", "ι", "ρ", "ο", "ς">>>>]>>,
     <<[key |-> <<"r", "e", "g", "i", "o", "n">>, value |-> <<<<"Α", "τ", "τ", "ι", "κ", "ή">>>>]>>}

\* org_region_map.csv: absent, or its rows.
RegionMapFiles ==
    {[exists |-> FALSE, rows |-> <<>>],
     [exists |-> TRUE, rows |-> <<
         [organizationUid |-> <<<<"6", "1", "1", "4">>>>,
          region |-> <<<<"Σ", "Τ", "Ε", "Ρ", "Ε", "Α", " ", "Ε", "Λ", "Λ", "Α", "Δ", "Α">>>>]>>],
     [exists |-> TRUE, rows |-> <<
         [organizationUid |-> <<<<" ", "6", "1", "1", "4", " ">>>>,
          region |-> <<<<"Κ", "ύ", "π", "ρ", "ο", "ς">>>>]>>],
     [exists |-> TRUE, rows |-> <<
         [organizationUid |-> <<<<"6", "1", "1", "4">>>>,
          region |-> <<<<" ", " ">>>>],
         [organizationUid |-> <<<<"9", "9">>>>,
          region |-> <<>>]>>],
     [exists |-> TRUE, rows |-> <<
         [organizationUid |-> <<<<"6", "1", "1", "4">>>>,
          region |-> <<<<"Κ", "ρ", "η", "τ", "η">>>>],
         [organizationUid |-> <<<<"6", "1", "1", "4">>>>,
          region |-> <<<<"Π", "ε", "ρ", "ι", "φ", "έ", "ρ", "ε", "ι", "α", " ", "Α", "Τ", "Τ", "Ι", "Κ", "Η", "Σ">>>>]>>]}

InitRegion ==
    /\ impl = "DMD"
    /\ pc = "region_start"
    /\ InitIdleRun
    /\ InitToolVars
    /\ InitKpiVars
    /\ InitPctVars
    /\ decision_labels = <<>>
    /\ mapping = <<>>
    /\ recent = NotRun
    /\ trend = NotRun
    /\ mix = NotRun
    /\ unknown_codes = NotRun
    /\ outliers = NotRun
    /\ region = NotRun
    /\ \E u \in UidOptions, n \in NameOptions, l \in LabelOptions,
          sb \in SubjectOptions, rf \in RegionFieldOptions :
          row = u \o n \o l \o sb \o rf
    /\ region_map_file \in RegionMapFiles

NextRegion ==
    \/ LoadRegionMappingStep
    \/ InferRegionStep

SpecRegion == InitRegion /\ [][NextRegion]_vars

\* Number of decision identifiers of the batches of SpecOutliers.
MaxIds == 11

OutlierRecord(id, issueDay, subm) ==
    ("ada" :> Str("ADA" \o ToString(id)))
    @@ ("issueDate" :> Str(MonthTs(issueDay, 1)))
    @@ ("submissionTimestamp" :> subm)

\* The records of identifiers 1 and 2: none, one record, the same decision
\* fetched twice with different delays in either order, a record with an
\* undefined delay alone or before a record with a defined one, and a
\* record submitted before it was issued.
DuplicateOptions == {"none", "single", "low high", "high low", "nan", "nan high", "negative"}

RecordsOfId(id, opt) ==
    LET low == OutlierRecord(id, 5, Str(MonthTs(6, 1)))
        high == OutlierRecord(id, 5, Str(MonthTs(8, 1)))
        undef == OutlierRecord(id, 5, Malformed)
    IN CASE opt = "none" -> <<>>
         [] opt = "single" -> <<low>>
         [] opt = "low high" -> <<low, high>>
         [] opt = "high low" -> <<high, low>>
         [] opt = "nan" -> <<undef>>
         [] opt = "nan high" -> <<undef, high>>
         [] opt = "negative" -> <<OutlierRecord(id, 8, Str(MonthTs(5, 1)))>>

\* The record of identifier id >= 3, submitted on day 5, 6 or 8 of January
\* or February: identifiers six apart have the same delay.
PlainRecord(id) ==
    OutlierRecord(id, 5,
        Str(MonthTs(IF id % 3 = 0 THEN 5 ELSE IF id % 3 = 1 THEN 6 ELSE 8,
                    1 + ((id \div 3) % 2))))

InitOutliers ==
    /\ impl \in Impls
    /\ pc = "frame_fetched"
    /\ InitIdleRun
    /\ InitToolVars
    /\ \E o1 \in DuplicateOptions, o2 \in DuplicateOptions, n \in 0 .. (MaxIds - 2) :
          batch = RecordsOfId(1, o1) \o [i \in 1 .. n |-> PlainRecord(i + 2)]
                    \o RecordsOfId(2, o2)
    /\ frame = DataFrameOf(batch)
    /\ kpi = NoKpis
    /\ InitPctVars
    /\ InitAggVars

NextOutliers ==
    \/ NormalizeStep
    \/ OutliersStep

SpecOutliers == InitOutliers /\ [][NextOutliers]_vars

\* Number of decision-type codes of the batches of SpecMix.
MaxCodes == 6

\* Decision-type codes, with and without an entry in DECISION_LABELS.
CodeNames == <<"Α.1", "Ζ.9", "Β.1.1", "Χ.1", "Γ.2", "Χ.2", "Δ.1", "Χ.3">>

\* Largest number of records of one code.
MaxPerCode == 2

MixRecord(id, cell) ==
    ("ada" :> Str("ADA" \o ToString(id))) @@ ("issueDate" :> T0)
    @@ ("submissionTimestamp" :> T1)
    @@ (IF cell = <<>> THEN <<>> ELSE ("decisionTypeUid" :> cell))

\* counts[c] records of code c, for each code, then the records without a
\* code.
RECURSIVE MixBatch(_, _, _)
MixBatch(counts, c, nocode) ==
    IF c = 0 THEN [i \in 1 .. nocode |-> MixRecord(i, <<>>)]
    ELSE [i \in 1 .. counts[c] |-> MixRecord(10 * c + i, Str(CodeNames[c]))]
         \o MixBatch(counts, c - 1, nocode)

\* decision_labels.json: absent, not JSON, or one more label.
LabelFiles ==
    {[exists |-> FALSE, valid |-> FALSE, labels |-> <<>>],
     [exists |-> TRUE, valid |-> FALSE, labels |-> <<>>],
     [exists |-> TRUE, valid |-> TRUE, labels |-> ("Ζ.9" :> "Custom act")]}

InitMix ==
    /\ impl \in Impls
    /\ pc = "frame_fetched"
    /\ InitIdleRun
    /\ InitToolVars
    /\ \E counts \in [1 .. MaxCodes -> 0 .. MaxPerCode], nocode \in 0 .. 1 :
          batch = MixBatch(counts, MaxCodes, nocode)
    /\ frame = DataFrameOf(batch)
    /\ kpi = NoKpis
    /\ InitPctVars
    /\ IF impl = "DM" THEN decision_labels = DECISION_LABELS
       ELSE \E file \in LabelFiles : decision_labels = load_decision_labels(file)
    /\ mapping = <<>>
    /\ recent = NotRun
    /\ trend = NotRun
    /\ mix = NotRun
    /\ unknown_codes = NotRun
    /\ outliers = NotRun
    /\ region = NotRun
    /\ row = <<>>
    /\ region_map_file = [exists |-> FALSE, rows |-> <<>>]

NextMix ==
    \/ NormalizeStep
    \/ MixStep

SpecMix == InitMix /\ [][NextMix]_vars

\* The values pct_change is applied to: None, NaN, counts and delays.
PyValues ==
    {PyNone, PyNaN, PyInt(0), PyInt(1), PyInt(3),
     PyFloat(RInt(0)), PyFloat(RInt(1)), PyFloat(RInt(2)),
     PyFloat(Rat(-1, 2)), PyFloat(Rat(5, 2)), PyFloat(Rat(14, 5))}

InitPct ==
    /\ impl \in Impls
    /\ pc = "pct_start"
    /\ InitIdleRun
    /\ InitToolVars
    /\ InitKpiVars
    /\ cur \in PyValues
    /\ prev \in PyValues
    /\ pctDM = PyRaise("none")
    /\ pctDMD = PyRaise("none")
    /\ InitAggVars

NextPct == PctChangeStep

SpecPct == InitPct /\ [][NextPct]_vars

(***************************************************************************)
(* compute_regional_trends (DMD)                                           *)
(***************************************************************************)
\* Months, from January 2024 on, the batches of SpecRegional cover.
RegMonths == 4

\* Values of the argument months (main passes 6).
WindowMonths == {1, 2, 3, 6}

\* The regions of the records, in the order groupby sorts them in.
RegionNames == <<"Αττική", "Κρήτη">>

\* Period arithmetic: the number of a month and the month of a number.
PeriodOrd(k) == k.y * 12 + (k.m - 1)
PeriodOf(o) == [y |-> o \div 12, m |-> (o % 12) + 1]

\* Mutant: the cutoff is `months` months before the latest month.
CutoffPeriodOneMore(endp, n) == PeriodOf(PeriodOrd(endp) - n)

\* cutoff_period = end_period - (months - 1)
CutoffPeriod(endp, n) == PeriodOf(PeriodOrd(endp) - (n - 1))

\* The rows i of df with month key k and region r.
RegionGroup(df, rowset, k, r) ==
    SelectSeq([i \in 1 .. Len(df.rows) |-> i],
              LAMBDA i : /\ i \in rowset
                         /\ MonthKey(df.rows[i]["issue_dt"]) = <<k>>
                         /\ df.rows[i]["region"] = <<r>>)

\* The rows of one month of monthly_region, in the order of the regions.
RECURSIVE MonthRegionRows(_, _, _, _)
MonthRegionRows(df, rowset, k, at) ==
    IF at > Len(RegionNames) THEN <<>>
    ELSE LET g == RegionGroup(df, rowset, k, RegionNames[at])
             here == IF g = <<>> THEN <<>>
                     ELSE <<[month |-> k, region |-> RegionNames[at],
                             count |-> Cardinality({x \in 1 .. Len(g) :
                                          ~IsNa(df.rows[g[x]]["ada"])}),
                             median_delay |-> Median([x \in 1 .. Len(g) |->
                                          df.rows[g[x]]["delay_days"]])]>>
         IN here \o MonthRegionRows(df, rowset, k, at + 1)

\* filtered.groupby(["month_period", "region"]).agg(...).reset_index()
RECURSIVE MonthlyRegion(_, _, _)
MonthlyRegion(df, rowset, ks) ==
    IF ks = <<>> THEN <<>>
    ELSE MonthRegionRows(df, rowset, Head(ks), 1)
         \o MonthlyRegion(df, rowset, Tail(ks))

RECURSIVE SumCounts(_)
SumCounts(rs) == IF rs = <<>> THEN 0 ELSE Head(rs).count + SumCounts(Tail(rs))

\* monthly_region.groupby("region").agg(total_decisions=("count", "sum"),
\* median_delay=("median_delay", "median")).reset_index()
RECURSIVE AggRegion(_, _)
AggRegion(monthly, at) ==
    IF at > Len(RegionNames) THEN <<>>
    ELSE LET g == SelectSeq(monthly, LAMBDA e : e.region = RegionNames[at])
             here == IF g = <<>> THEN <<>>
                     ELSE <<[region |-> RegionNames[at],
                             total_decisions |-> SumCounts(g),
                             median_delay |-> Median([x \in 1 .. Len(g) |->
                                                        g[x].median_delay])]>>
         IN here \o AggRegion(monthly, at + 1)

RECURSIVE InsertByTotal(_, _)
InsertByTotal(x, sorted) ==
    IF sorted = <<>> THEN <<x>>
    ELSE IF x.total_decisions > Head(sorted).total_decisions
         THEN <<x>> \o sorted
    ELSE <<Head(sorted)>> \o InsertByTotal(x, Tail(sorted))

RECURSIVE StableSortByTotal(_)
StableSortByTotal(rs) ==
    IF rs = <<>> THEN <<>>
    ELSE InsertByTotal(rs[Len(rs)],
                       StableSortByTotal(SubSeq(rs, 1, Len(rs) - 1)))

\* sort_values("total_decisions", ascending=False): rows of equal total are
\* left in either order.
SortByTotal(rs, kind) ==
    IF kind = "as given" THEN StableSortByTotal(rs)
    ELSE StableSortByTotal(Reverse(rs))

\* The loop over agg_region: the rows of top_regions.
TopRegions(agg) ==
    [i \in 1 .. Len(agg) |->
        [region |-> agg[i].region,
         total_decisions |-> agg[i].total_decisions,
         median_delay |-> RoundTo(agg[i].median_delay, 2)]]

EmptyRegional == [summary |-> <<>>, monthly |-> <<>>]

\* compute_regional_trends(df, months): [summary, monthly] for top_regions
\* and monthly_region.
ComputeRegionalTrends(df, n, kind) ==
    IF Empty(df) THEN EmptyRegional
    ELSE LET key(i) == MonthKey(df.rows[i]["issue_dt"])
             dated == {i \in 1 .. Len(df.rows) : key(i) # <<>>}
         IN IF dated = {} THEN EmptyRegional
            ELSE LET end_period ==
                         CHOOSE k \in {key(i)[1] : i \in dated} :
                             \A i \in dated : ~KeyLt(k, key(i)[1])
                     cutoff_period == CutoffPeriod(end_period, n)
                     filtered == {i \in dated : ~KeyLt(key(i)[1], cutoff_period)}
                     monthly == MonthlyRegion(df, filtered,
                                    SortKeys({key(i)[1] : i \in filtered}))
                 IN [summary |-> TopRegions(SortByTotal(AggRegion(monthly, 1),
                                                        kind)),
                     monthly |-> monthly]

\* main: compute_regional_trends(ytd_with_region, months).
RegionalStep ==
    /\ pc = "normalized"
    /\ \E kind \in SortKinds :
          regional' = ComputeRegionalTrends(frame, months, kind)
    /\ pc' = "regional_done"
    /\ UNCHANGED <<impl, runVars, kpiVars, pctVars, aggVars, months, limit,
                   no_csv, written, retries, attempt, outcome>>

\* What a month of the batch holds: no record, one record of the first or
\* of the second region, one of each, or two of the first region.
RegionContents == {"none", "A", "B", "AB", "AA"}

\* One more record of the batch: none, one whose issuance timestamp is
\* malformed, or one issued in December 2023.
RegionExtras == {"none", "undated", "last year"}

RegionalRecord(id, issue, subm, r) ==
    ("ada" :> Str(id)) @@ ("issueDate" :> issue)
    @@ ("submissionTimestamp" :> subm) @@ ("region" :> Str(RegionNames[r]))

RegionalOfMonth(m, c) ==
    LET id == "ADA" \o ToString(m)
        a == RegionalRecord(id \o "a", Str(MonthTs(5, m)), Str(MonthTs(6, m)), 1)
        a2 == RegionalRecord(id \o "c", Str(MonthTs(5, m)), Str(MonthTs(8, m)), 1)
        b == RegionalRecord(id \o "b", Str(MonthTs(5, m)), Str(MonthTs(8, m)), 2)
    IN CASE c = "none" -> <<>>
         [] c = "A" -> <<a>>
         [] c = "B" -> <<b>>
         [] c = "AB" -> <<a, b>>
         [] c = "AA" -> <<a, a2>>

\* The batch, most recent month first.
RECURSIVE RegionalBatch(_, _)
RegionalBatch(contents, m) ==
    IF m = 0 THEN <<>>
    ELSE RegionalOfMonth(m, contents[m]) \o RegionalBatch(contents, m - 1)

RegionalExtra(extra) ==
    CASE extra = "none" -> <<>>
      [] extra = "undated" ->
           <<RegionalRecord("ADA0", Malformed, Str(MonthTs(6, 1)), 1)>>
      [] extra = "last year" ->
           <<RegionalRecord("ADA12", Str("05/12/2023 00:00:00"),
                            Str("06/12/2023 00:00:00"), 2)>>

InitRegional ==
    /\ impl = "DMD"
    /\ pc = "frame_fetched"
    /\ InitIdleRun
    /\ \E contents \in [1 .. RegMonths -> RegionContents],
          extra \in RegionExtras :
          batch = RegionalBatch(contents, RegMonths) \o RegionalExtra(extra)
    /\ frame = DataFrameOf(batch)
    /\ kpi = NoKpis
    /\ InitPctVars
    /\ InitAggVars
    /\ months \in WindowMonths
    /\ regional = NotRun
    /\ limit = 0
    /\ no_csv = FALSE
    /\ written = <<>>
    /\ retries = 0
    /\ attempt = 0
    /\ outcome = "none"

NextRegional ==
    \/ NormalizeStep
    \/ RegionalStep

SpecRegional == InitRegional /\ [][NextRegional]_vars

(***************************************************************************)
(* fetch_diavgeia_export.main: the pagination loop                         *)
(***************************************************************************)
\* size=min(remaining, 500)
ExportPageSize == 500

\* Values of --limit and lengths of the result list of the query.
Limits == {0, 1, 200, 300, ExportPageSize, 700, 2 * ExportPageSize, 1200}
ExportTotals == {0, 1, 250, ExportPageSize, 600, 2 * ExportPageSize, 1500}

ExportJsonl == "output/decisions_export.jsonl"
ExportCsv == "output/decisions_export.csv"

\* size=min(remaining, 500)
ExportRequestSize(rem) == Min(rem, ExportPageSize)

\* The files in output/ when the loop has ended: the csv is written when
\* there are rows and --no-csv is not given.
ExportFiles(rws) ==
    IF ~no_csv /\ rws # <<>> THEN {ExportJsonl, ExportCsv} ELSE {ExportJsonl}

\* One iteration of `while remaining > 0`, from the request to the next test
\* of the loop condition, and main's writing of the csv when the loop ends.
\* The batch holds the records at offsets [page*size, page*size + n) of the
\* result list; its records are written one by one until remaining is 0.
ExportPage ==
    /\ pc = "export"
    /\ LET size == ExportRequestSize(remaining)
           req == [page |-> page, size |-> size]
       IN \/ /\ nreq' = nreq + 1
             /\ reqlog' = Append(reqlog, req)
             /\ failReq' = nreq + 1
             /\ pc' = "raised"
             /\ UNCHANGED <<remaining, page, rows, written, lastLen,
                            artifacts>>
          \/ \E n \in Responses(page, size) :
               LET taken == Min(n, remaining)
                   lo == page * size
                   rws == IF EmptyPage(n) THEN written
                          ELSE Append(written, [lo |-> lo, hi |-> lo + taken])
                   rem == remaining - taken
                   ends == EmptyPage(n) \/ ~LoopCond(rem)
               IN /\ nreq' = nreq + 1
                  /\ reqlog' = Append(reqlog, req)
                  /\ lastLen' = n
                  /\ written' = rws
                  /\ rows' = rows + taken
                  /\ remaining' = rem
                  /\ page' = IF EmptyPage(n) THEN page ELSE page + 1
                  /\ pc' = IF ends THEN "export_done" ELSE pc
                  /\ artifacts' = IF ends THEN ExportFiles(rws) ELSE artifacts
                  /\ failReq' = failReq
    /\ UNCHANGED <<impl, winVars, caller, chunk, ranges, ridx, dframes,
                   srvMode, srvTotal, ret, frames, computed, kpiCounts,
                   kpiVars, pctVars, aggVars, months, regional, limit, no_csv,
                   retries, attempt, outcome>>

InitExport ==
    /\ impl = "FDE"
    /\ limit \in Limits
    /\ no_csv \in BOOLEAN
    /\ pc = IF LoopCond(limit) THEN "export" ELSE "export_done"
    /\ year = 2024
    /\ month = 3
    /\ windows = NoWindows
    /\ caller = "main"
    /\ chunk = FALSE
    /\ ranges = <<>>
    /\ ridx = 1
    /\ dframes = <<>>
    /\ remaining = limit
    /\ page = 0
    /\ rows = 0
    /\ srvMode = "list"
    /\ srvTotal \in ExportTotals
    /\ reqlog = <<>>
    /\ nreq = 0
    /\ lastLen = -1
    /\ failReq = 0
    /\ ret = NoResult
    /\ frames = <<>>
    /\ computed = {}
    /\ kpiCounts = <<>>
    /\ artifacts = {ExportJsonl}
    /\ InitKpiVars
    /\ InitPctVars
    /\ InitAggVars
    /\ months = 6
    /\ regional = NotRun
    /\ written = <<>>
    /\ retries = 0
    /\ attempt = 0
    /\ outcome = "none"

NextExport == ExportPage

SpecExport == InitExport /\ [][NextExport]_vars

(***************************************************************************)
(* fetch_diavgeia._get                                                     *)
(***************************************************************************)
\* Largest value of the argument retries.
MaxRetries == 4

\* What requests.get followed by raise_for_status gives: a response, or one
\* of the subclasses of requests.RequestException.
RequestErrors == {"HTTPError", "ConnectionError", "Timeout"}
RequestResults == {"ok"} \cup RequestErrors

\* Mutant: the error of the last attempt is not raised again.
ReRaiseNever(att, n) == FALSE

\* if attempt == retries: raise
ReRaise(att, n) == att = n

\* One iteration of `for attempt in range(1, retries + 1)`: the request, and
\* on a request error the re-raise or the sleep before the next attempt.
GetAttempt ==
    /\ pc = "_get"
    /\ attempt < retries
    /\ attempt' = attempt + 1
    /\ \E res \in RequestResults :
         /\ nreq' = nreq + 1
         /\ reqlog' = Append(reqlog, [attempt |-> attempt', result |-> res])
         /\ IF res = "ok" THEN
                pc' = "returned" /\ outcome' = "response"
            ELSE IF ReRaise(attempt', retries) THEN
                pc' = "raised" /\ outcome' = res
            ELSE
                pc' = pc /\ outcome' = outcome
    /\ UNCHANGED <<impl, winVars, callVars, srvMode, srvTotal, lastLen,
                   failReq, mainVars, kpiVars, pctVars, aggVars, months, regional,
                   limit, no_csv, written, retries>>

\* The for loop ran out of attempts: the function ends without a return
\* statement and gives None.
GetFallsThrough ==
    /\ pc = "_get"
    /\ attempt >= retries
    /\ pc' = "returned"
    /\ outcome' = "None"
    /\ UNCHANGED <<impl, runVars, kpiVars, pctVars, aggVars, months, regional, limit,
                   no_csv, written, retries, attempt>>

InitGet ==
    /\ impl = "FD"
    /\ pc = "_get"
    /\ InitIdleRun
    /\ InitKpiVars
    /\ InitPctVars
    /\ InitAggVars
    /\ months = 6
    /\ regional = NotRun
    /\ limit = 0
    /\ no_csv = FALSE
    /\ written = <<>>
    /\ retries \in 0 .. MaxRetries
    /\ attempt = 0
    /\ outcome = "none"

NextGet ==
    \/ GetAttempt
    \/ GetFallsThrough

SpecGet == InitGet /\ [][NextGet]_vars

(***************************************************************************)
(* Claims                                                                  *)
(***************************************************************************)
\* C1 (SpecFetch): in fetch_export, once a page came back with fewer than
\* PAGE_SIZE records (an empty page included) or the accumulated record count
\* has reached MAX_RESULTS, no further request is sent.
C1_NoRequestAfterStop ==
    [][(/\ impl = "DM"
        /\ lastLen >= 0
        /\ (lastLen < PAGE_SIZE \/ rows >= MAX_RESULTS)) => nreq' = nreq]_vars

\* fetch_export returned because the cap was reached by a full page.
C1_Witness ==
    /\ impl = "DM" /\ pc = "returned"
    /\ lastLen >= PAGE_SIZE /\ rows >= MAX_RESULTS

\* C2 (SpecFetch): a failed page request ends the fetch call with the
\* exception at that request: no request follows it (no retry, no later page,
\* no later day range) and the call returns no frame.
C2_FailFast ==
    failReq # 0 => /\ nreq = failReq
                   /\ pc = "raised"
                   /\ ret = NoResult

\* A chunked fetch_decisions failed on a later page of a later day, with
\* frames of earlier days and rows of earlier pages in hand.
C2_Witness ==
    /\ failReq # 0 /\ impl = "DMD" /\ chunk
    /\ dframes # <<>> /\ rows > 0 /\ ridx > 1

\* C3 (Spec): computations and artifacts exist only after all five window
\* fetches returned with no request failed, and a failed request aborts the
\* run with nothing computed and nothing written.
C3_ComputeAfterAllFetches ==
    /\ (computed # {} \/ kpiCounts # <<>> \/ artifacts # {}) =>
           /\ Len(frames) = 5
           /\ failReq = 0
           /\ windows.exc = ""
    /\ failReq # 0 => /\ pc = "aborted"
                      /\ computed = {}
                      /\ kpiCounts = <<>>
                      /\ artifacts = {}

\* The fetch of the fifth window failed after a first page was taken.
C3_Witness ==
    /\ failReq # 0 /\ Len(frames) = 4 /\ rows > 0 /\ pc = "aborted"

\* C4 (SpecFetch): against a server that never returns more records than
\* the requested size, fetch_export never holds or returns more than
\* MAX_RESULTS records.
C4_AtMostMaxResults ==
    (impl = "DM" /\ srvMode # "any") =>
        /\ rows <= MAX_RESULTS
        /\ ret.n <= MAX_RESULTS

\* fetch_export returned exactly MAX_RESULTS records.
C4_Witness ==
    /\ impl = "DM" /\ srvMode = "bounded"
    /\ pc = "returned" /\ ret = Frame(MAX_RESULTS)

LastDay(y, m) == Date(y, m, DaysInMonth(y, m))

\* C5 (SpecWindows): when the window derivation returns, every window has
\* start <= end, current and same-month-last-year are full calendar months,
\* previous is the full calendar month before current and ends the day
\* before current starts, year-to-date runs from January 1 to current.end.
C5_WindowsConsistent ==
    (pc # "start" /\ windows.exc = "") =>
        LET w == windows.w
            py == IF month = 1 THEN year - 1 ELSE year
            pm == IF month = 1 THEN 12 ELSE month - 1
        IN /\ Len(w) = 5
           /\ \A k \in 1 .. 5 : DateLe(w[k].start, w[k].end)
           /\ w[1] = Window(Date(year, month, 1), LastDay(year, month))
           /\ w[2] = Window(Date(py, pm, 1), LastDay(py, pm))
           /\ NextDay(w[2].end) = w[1].start
           /\ w[3] = Window(Date(year, 1, 1), w[1].end)
           /\ w[5] = Window(Date(year - 1, month, 1), LastDay(year - 1, month))

\* prepare_windows of DM returned for a January (previous is December of
\* the year before).
C5_Witness ==
    /\ pc # "start" /\ windows.exc = "" /\ impl = "DM" /\ month = 1

\* C6 (SpecWindows): the derivation raises ValueError and yields no windows
\* exactly for February of a leap year; otherwise it succeeds and the
\* prior-year-to-date window runs from January 1 of year-1 to the day of
\* (year-1, month) with the day number of current.end.
C6_PriorYtdLiteralDay ==
    pc # "start" =>
        IF month = 2 /\ IsLeap(year)
        THEN pc = "aborted" /\ windows = [exc |-> "ValueError", w |-> <<>>]
        ELSE /\ pc # "aborted"
             /\ windows.exc = ""
             /\ windows.w[4] = Window(Date(year - 1, 1, 1),
                                      Date(year - 1, month, windows.w[1].end.d))

\* The derivation raised for February 2000 or February 2024.
C6_Witness ==
    /\ pc = "aborted" /\ windows.exc = "ValueError" /\ month = 2
    /\ year \in {2000, 2024}


(***************************************************************************)
(* Claims about compute_kpis (SpecKpi)                                     *)
(***************************************************************************)
\* C7: compute_kpis on an empty batch returns count 0 with median, p90,
\* miss_pub and miss_org all NaN (never 0) and raises nothing; on a
\* non-empty batch count is the number of records.
C7_EmptyBatchUndefined ==
    /\ kpi.exc \in {"none", ""}
    /\ (pc = "kpi_done" /\ Len(batch) = 0) =>
          /\ kpi.exc = ""
          /\ kpi.count = 0
          /\ kpi.median = NaN
          /\ kpi.p90 = NaN
          /\ kpi.miss_pub = NaN
          /\ kpi.miss_org = NaN
    /\ (pc = "kpi_done" /\ Len(batch) > 0) =>
          /\ kpi.exc = ""
          /\ kpi.count = Len(batch)

C7_Witness ==
    /\ pc = "kpi_done"
    /\ Len(batch) = 0
    /\ kpi.count = 0
    /\ kpi.median = NaN

\* The records of the normalised frame whose delay is defined.
DefinedDelays == {i \in 1 .. Len(frame.rows) : ~IsNa(frame.rows[i]["delay_days"])}

DelayOf(i) == frame.rows[i]["delay_days"][1]

\* The k-th smallest defined delay, by rank.
OrderStat(k) ==
    CHOOSE x \in {DelayOf(i) : i \in DefinedDelays} :
        /\ Cardinality({i \in DefinedDelays : RLt(DelayOf(i), x)}) < k
        /\ k <= Cardinality({i \in DefinedDelays : RLe(DelayOf(i), x)})

MedianOfDefined ==
    LET n == Cardinality(DefinedDelays)
    IN IF n % 2 = 1 THEN OrderStat((n + 1) \div 2)
       ELSE RDiv(RAdd(OrderStat(n \div 2), OrderStat(n \div 2 + 1)), RInt(2))

\* The 90th percentile at position 9 (n - 1) / 10 of the sorted defined delays.
P90OfDefined ==
    LET n == Cardinality(DefinedDelays)
        lo == (9 * (n - 1)) \div 10
        tenths == (9 * (n - 1)) % 10
    IN IF tenths = 0 THEN OrderStat(lo + 1)
       ELSE RAdd(OrderStat(lo + 1),
                 RMul(Rat(tenths, 10), RSub(OrderStat(lo + 2), OrderStat(lo + 1))))

\* C8: for a non-empty batch median and p90 are the median and the 90th
\* percentile of the defined delays only, both NaN when no delay is defined;
\* delays 1, 3, 2 give median 2 and p90 2.8.
C8_MedianP90OfDefined ==
    (pc = "kpi_done" /\ Len(batch) > 0) =>
        /\ DefinedDelays = {} => (kpi.median = NaN /\ kpi.p90 = NaN)
        /\ DefinedDelays # {} =>
              /\ kpi.median = Fl(MedianOfDefined)
              /\ kpi.p90 = Fl(P90OfDefined)
        /\ batch = <<RecA, RecB, RecC>> =>
              /\ kpi.median = Fl(RInt(2))
              /\ kpi.p90 = Fl(Rat(28, 10))

C8_Witness ==
    /\ pc = "kpi_done"
    /\ batch = <<RecD, RecB, RecA>>
    /\ Cardinality(DefinedDelays) = 2
    /\ kpi.median = Fl(RInt(2))
    /\ kpi.p90 = Fl(Rat(28, 10))

\* The records of the batch that carry field f with a value.
HasValue(f) ==
    {i \in 1 .. Len(batch) : f \in DOMAIN batch[i] /\ batch[i][f] # Null}

\* The field f was returned on some record of the batch.
Returned(f) == \E i \in 1 .. Len(batch) : f \in DOMAIN batch[i]

MissingRate(f) ==
    IF Returned(f)
    THEN Fl(Rat((Len(batch) - Cardinality(HasValue(f))) * 100, Len(batch)))
    ELSE NaN

\* C9: in the KPI snapshot of a window, miss_org (miss_pub) is the
\* percentage of the records whose organization label (publish timestamp) is
\* undefined or absent, and is NaN only when the field was returned on none
\* of the records, for the batch as main passes it to compute_kpis.
C9_MissingRates ==
    pc = "kpi_done" =>
        /\ kpi.miss_pub = MissingRate("publishTimestamp")
        /\ kpi.miss_org = MissingRate("organizationLabel")

(***************************************************************************)
(* Claims about pct_change (SpecPct)                                       *)
(***************************************************************************)
\* The values compute_kpis produces: an int count, float or NaN statistics.
FromKpis(v) == v.t \in {"int", "float", "nan"}

\* C10: pct_change is NaN whenever the prior value is zero, NaN or None and
\* otherwise (current - prior) / prior * 100; on values produced by
\* compute_kpis it raises nothing; the two implementations agree on every
\* input.
C10_PctChange ==
    pc = "pct_done" =>
        /\ pctDM = pctDMD
        /\ (PyEqZero(prev) \/ prev.t \in {"None", "nan"}) => pctDM = PyOk(PyNaN)
        /\ (FromKpis(cur) /\ FromKpis(prev)) =>
              /\ pctDM.exc = ""
              /\ pctDM.v.t \in {"float", "nan"}
        /\ (cur.t \in {"int", "float"} /\ prev.t \in {"int", "float"}
              /\ prev.r.n # 0) =>
              /\ pctDM.exc = ""
              /\ pctDM.v.t = "float"
              /\ RMul(pctDM.v.r, prev.r) = RMul(RSub(cur.r, prev.r), RInt(100))

C10_Witness ==
    /\ pc = "pct_done"
    /\ cur = PyInt(3)
    /\ prev = PyInt(0)
    /\ pctDM = PyOk(PyNaN)
    /\ pctDMD = PyOk(PyNaN)

(***************************************************************************)
(* Claims about the monthly series (SpecTrend)                             *)
(***************************************************************************)
\* The rows of the normalised frame issued in month k.
IssuedIn(k) ==
    {i \in 1 .. Len(frame.rows) : MonthKey(frame.rows[i]["issue_dt"]) = <<k>>}

\* The months in which a record of the batch was issued.
MonthsPresent ==
    {k \in {[y |-> 2024, m |-> m] : m \in 1 .. 12} : IssuedIn(k) # {}}

FirstMonth == CHOOSE k \in MonthsPresent : \A o \in MonthsPresent : ~KeyLt(o, k)

LastMonth == CHOOSE k \in MonthsPresent : \A o \in MonthsPresent : ~KeyLt(k, o)

\* One slot per calendar month from the earliest to the latest month.
CalendarSeries ==
    IF MonthsPresent = {} THEN <<>>
    ELSE [j \in 1 .. (LastMonth.m - FirstMonth.m + 1) |->
            LET k == [y |-> 2024, m |-> FirstMonth.m + j - 1]
                rowsOf == SortKeys({[y |-> i, m |-> 0] : i \in IssuedIn(k)})
            IN [month |-> k,
                count |-> Cardinality(IssuedIn(k)),
                median |-> Median([x \in 1 .. Len(rowsOf) |->
                                     frame.rows[rowsOf[x].y]["delay_days"]])]]

\* C11: the monthly series has one slot per calendar month between the
\* earliest and the latest month of the batch; a month without records is
\* present with count 0 and an undefined median (compute_recent_months
\* returns the last six slots of the series).
C11_CalendarMonthSlots ==
    pc = "trend_done" => recent = TailRows(CalendarSeries, 6)


\* The count and the rounded median compute_trend_stats reports for the
\* month at position pos of the series (its last six months are in recent),
\* 0 when the series has no such position.
ReportedAt(pos) ==
    IF pos >= 1
    THEN [count |-> recent[pos].count, median |-> RoundTo(recent[pos].median, 2)]
    ELSE [count |-> 0, median |-> Fl(RInt(0))]

TrendOf(k) ==
    [count |-> IF k = 1 THEN trend.count.m1
               ELSE IF k = 2 THEN trend.count.m2 ELSE trend.count.m3,
     median |-> IF k = 1 THEN trend.median.m1
                ELSE IF k = 2 THEN trend.median.m2 ELSE trend.median.m3]

\* C12 as stated: m1, m2, m3 are the count and the median of the last three
\* months of the series, most recent first (m1 = the latest month), 0 for a
\* position the series does not have.
C12_LatestMonthFirst ==
    (pc = "trend_done" /\ Len(batch) > 0) =>
        \A k \in 1 .. 3 : TrendOf(k) = ReportedAt(Len(recent) - k + 1)

\* C12 amended: m1, m2, m3 are the count and the median (rounded to two
\* decimals) of the three months before the latest month of the series
\* (m1 = the month before the latest), 0 for a position the series does not
\* have.
C12_MonthsBeforeLatest ==
    (pc = "trend_done" /\ Len(batch) > 0) =>
        /\ ~trend.empty
        /\ \A k \in 1 .. 3 : TrendOf(k) = ReportedAt(Len(recent) - k)

C12_Witness ==
    /\ pc = "trend_done"
    /\ Len(recent) = 3
    /\ recent[3].count = 1
    /\ recent[2].count = 2
    /\ recent[1].count = 1
    /\ trend.count.m1 = 2
    /\ trend.median.m1 = Fl(RInt(2))
    /\ trend.count.m2 = 1
    /\ trend.count.m3 = 0


\* The median delay of the records issued in month k.
MonthMedian(k) ==
    LET rowsOf == SortKeys({[y |-> i, m |-> 0] : i \in IssuedIn(k)})
    IN Median([x \in 1 .. Len(rowsOf) |-> frame.rows[rowsOf[x].y]["delay_days"]])

\* The last n months in which a record was issued.
LastMonths(n) ==
    {k \in MonthsPresent : Cardinality({o \in MonthsPresent : KeyLt(k, o)}) < n}

CountOf(k) == RInt(Cardinality(IssuedIn(k)))

MedianOrZero(k) == IF MonthMedian(k) = NaN THEN RInt(0) ELSE MonthMedian(k)[1]

RECURSIVE SumCountsOf(_)
SumCountsOf(ks) ==
    IF ks = {} THEN RInt(0)
    ELSE LET k == CHOOSE x \in ks : TRUE
         IN RAdd(CountOf(k), SumCountsOf(ks \ {k}))

RECURSIVE SumMediansOf(_)
SumMediansOf(ks) ==
    IF ks = {} THEN RInt(0)
    ELSE LET k == CHOOSE x \in ks : TRUE
         IN RAdd(MedianOrZero(k), SumMediansOf(ks \ {k}))

\* The months of ks whose median is defined.
WithMedian(ks) == {k \in ks : MonthMedian(k) # NaN}

\* The exact average of the counts of the last n months of the series.
MeanCount(n) ==
    RDiv(SumCountsOf(LastMonths(n)), RInt(Cardinality(LastMonths(n))))

\* The exact average of the defined medians of the last n months.
MeanMedian(n) ==
    RDiv(SumMediansOf(WithMedian(LastMonths(n))),
         RInt(Cardinality(WithMedian(LastMonths(n)))))

\* a is the integer part of the non-negative rational r.
IsTruncationOf(a, r) == a * r.d <= r.n /\ r.n < (a + 1) * r.d

\* The float cell c is r rounded to two decimals.
IsRounded2Of(c, r) ==
    /\ c # NaN
    /\ (c[1].n * 100) % c[1].d = 0
    /\ LET diff == RSub(c[1], r)
       IN 200 * Abs(diff.n) <= diff.d

AvgCountIs(a, n, exact) ==
    IF LastMonths(n) = {} THEN a = 0
    ELSE IF exact THEN RInt(a) = MeanCount(n)
    ELSE IsTruncationOf(a, MeanCount(n))

AvgMedianIs(c, n, exact) ==
    IF LastMonths(n) = {} THEN c = Fl(RInt(0))
    ELSE IF WithMedian(LastMonths(n)) = {} THEN c = NaN
    ELSE IF exact THEN c = Fl(MeanMedian(n))
    ELSE IsRounded2Of(c, MeanMedian(n))

\* C20 as stated: avg6 and avg12 are the averages of the per-month count and
\* the per-month median over the last 6 and the last 12 months of the
\* series (the months that exist when it is shorter); compute_trend_stats
\* never raises.
C20_ExactAverages ==
    /\ pc # "aborted"
    /\ (pc = "trend_done" /\ Len(batch) > 0) =>
          /\ AvgCountIs(trend.count.avg6, 6, TRUE)
          /\ AvgCountIs(trend.count.avg12, 12, TRUE)
          /\ AvgMedianIs(trend.median.avg6, 6, TRUE)
          /\ AvgMedianIs(trend.median.avg12, 12, TRUE)

\* C20 amended: the count average is truncated to an integer and the median
\* average, taken over the months whose median is defined, is rounded to
\* two decimals (undefined when no such month, 0 when the series is empty);
\* compute_trend_stats never raises.
C20_TruncatedAverages ==
    /\ pc # "aborted"
    /\ (pc = "trend_done" /\ Len(batch) = 0) => trend = EmptyTrend
    /\ (pc = "trend_done" /\ Len(batch) > 0) =>
          /\ AvgCountIs(trend.count.avg6, 6, FALSE)
          /\ AvgCountIs(trend.count.avg12, 12, FALSE)
          /\ AvgMedianIs(trend.median.avg6, 6, FALSE)
          /\ AvgMedianIs(trend.median.avg12, 12, FALSE)

C20_Witness ==
    /\ pc = "trend_done"
    /\ Cardinality(MonthsPresent) = 7
    /\ Len(recent) = 6
    /\ trend.count.avg6 = 1
    /\ trend.count.avg12 = 1
    /\ trend.median.avg6 = Fl(RInt(1))
    /\ trend.median.avg12 = Fl(Rat(114, 100))


(***************************************************************************)
(* Claims about the region of a record (SpecRegion)                        *)
(***************************************************************************)
\* Step 1: the organization identifier of the row is in the explicit table.
UidHit ==
    \E i \in 1 .. Len(row) :
        /\ row[i].key = OrganizationUidKey
        /\ IsStr(row[i].value)
        /\ row[i].value[1] \in DOMAIN mapping

\* Step 2: field i is named after "region" and holds a non-blank string.
RegionNamed(i) ==
    /\ Contains(Lower(row[i].key), RegionWord)
    /\ IsStr(row[i].value)
    /\ \E j \in 1 .. Len(row[i].value[1]) : row[i].value[1][j] # " "

\* Step 3: the f-th of organizationName, organizationLabel, subject holds a
\* string that contains the k-th keyword.
FieldHas(f, k) ==
    \E i \in 1 .. Len(row) :
        /\ row[i].key = KeywordFields[f]
        /\ IsStr(row[i].value)
        /\ Contains(Upper(row[i].value[1]), REGION_KEYWORDS[k][1])

AnyKeyword == \E f \in 1 .. 3, k \in 1 .. Len(REGION_KEYWORDS) : FieldHas(f, k)

\* C13: infer_region returns the result of the first successful step:
\* (1) the explicit table entry of the organization identifier, (2) the
\* first region-named field with a non-blank string, normalized, (3) the
\* first keyword, in list order, of the first of organizationName,
\* organizationLabel, subject that contains a keyword, (4) unknown.
C13_FirstSuccessfulStep ==
    pc = "region_done" =>
        /\ UidHit => region = mapping[RowGet(row, OrganizationUidKey)[1]]
        /\ ~UidHit =>
              \A i \in 1 .. Len(row) :
                  (RegionNamed(i) /\ \A j \in 1 .. (i - 1) : ~RegionNamed(j))
                      => region = normalize_region(row[i].value[1])
        /\ (~UidHit /\ \A i \in 1 .. Len(row) : ~RegionNamed(i)) =>
              /\ \A f \in 1 .. 3, k \in 1 .. Len(REGION_KEYWORDS) :
                    (/\ FieldHas(f, k)
                     /\ \A k2 \in 1 .. (k - 1) : ~FieldHas(f, k2)
                     /\ \A f2 \in 1 .. (f - 1), k2 \in 1 .. Len(REGION_KEYWORDS) :
                           ~FieldHas(f2, k2))
                        => region = REGION_KEYWORDS[k][2]
              /\ ~AnyKeyword => region = UnknownRegion

C13_Witness ==
    /\ pc = "region_done"
    /\ UidHit
    /\ \E i \in 1 .. Len(row) :
          RegionNamed(i) /\ normalize_region(row[i].value[1]) # region
    /\ FieldHas(1, 1)
    /\ REGION_KEYWORDS[1][2] # region
    /\ region = mapping[RowGet(row, OrganizationUidKey)[1]]

\* The thirteen canonical region names.
CanonicalRegions == {REGION_ALIASES[i][2] : i \in 1 .. Len(REGION_ALIASES)}

\* C14: for every record and every table loaded by load_region_mapping the
\* region assigned by infer_region is one of the thirteen canonical region
\* names or unknown.
C14_RegionIsCanonical ==
    pc = "region_done" => region \in CanonicalRegions \cup {UnknownRegion}


(***************************************************************************)
(* Claims about the outliers (SpecOutliers)                                *)
(***************************************************************************)
\* The identifiers of the batch.
AdaOfBatch == {batch[i]["ada"] : i \in 1 .. Len(batch)}

\* The rows of the normalised frame with identifier a.
RowsOfAda(a) == {i \in 1 .. Len(frame.rows) : frame.rows[i]["ada"] = a}

\* d is the highest delay among the records of identifier a: the largest
\* defined delay, undefined when none is defined.
HighestDelayOf(a, d) ==
    IF \A i \in RowsOfAda(a) : IsNa(frame.rows[i]["delay_days"])
    THEN IsNa(d)
    ELSE /\ ~IsNa(d)
         /\ \E i \in RowsOfAda(a) : frame.rows[i]["delay_days"] = d
         /\ \A i \in RowsOfAda(a) :
               IsNa(frame.rows[i]["delay_days"])
               \/ RLe(frame.rows[i]["delay_days"][1], d[1])

\* C15: outlier extraction never returns two records with the same
\* identifier, returns at most min(N, number of distinct identifiers)
\* records in non-increasing delay order (undefined delays last), and for
\* each returned identifier the instance with the highest delay.
C15_OutliersDistinctTop ==
    pc = "outliers_done" =>
        /\ \A i, j \in 1 .. Len(outliers) :
              i # j => outliers[i]["ada"] # outliers[j]["ada"]
        /\ Len(outliers) <= OutlierLimit
        /\ Len(outliers) <= Cardinality(AdaOfBatch)
        /\ \A i \in 1 .. Len(outliers) : outliers[i]["ada"] \in AdaOfBatch
        /\ \A i \in 1 .. (Len(outliers) - 1) :
              ~DelayBefore(outliers[i + 1], outliers[i])
        /\ \A i \in 1 .. Len(outliers) :
              HighestDelayOf(outliers[i]["ada"], outliers[i]["delay_days"])

C15_Witness ==
    /\ pc = "outliers_done"
    /\ Cardinality(AdaOfBatch) = 11
    /\ Len(batch) = 13
    /\ Len(outliers) = OutlierLimit
    /\ batch[1]["ada"] = batch[2]["ada"]
    /\ \E i \in 1 .. Len(outliers) :
          /\ outliers[i]["ada"] = batch[1]["ada"]
          /\ outliers[i]["submissionTimestamp"] = batch[2]["submissionTimestamp"]
          /\ outliers[i]["delay_days"] = Fl(RInt(3))
    /\ IsNa(frame.rows[Len(batch) - 1]["delay_days"])


(***************************************************************************)
(* Claims about the mix (SpecMix)                                          *)
(***************************************************************************)
\* The decision-type codes of the records of the batch.
CodesOfBatch ==
    {batch[i]["decisionTypeUid"][1] :
        i \in {j \in 1 .. Len(batch) : "decisionTypeUid" \in DOMAIN batch[j]}}

RecordsWithCode(c) ==
    {i \in 1 .. Len(batch) :
        "decisionTypeUid" \in DOMAIN batch[i] /\ batch[i]["decisionTypeUid"] = <<c>>}

\* C16: mix extraction records as unmapped every decision-type code of the
\* batch that is absent from the label dictionary and no code that has a
\* label there, and returns such a code in the mix with an empty label;
\* codes [A, A, B] with only A labelled yield [(A, label, 66.7), (B, '', 33.3)]
\* and record B as unmapped.
C16_UnmappedCodesRecorded ==
    pc = "mix_done" =>
        /\ {unknown_codes[i] : i \in 1 .. Len(unknown_codes)}
              = {c \in CodesOfBatch : c \notin DOMAIN decision_labels}
        /\ \A i \in 1 .. Len(mix) :
              mix[i][2] = IF mix[i][1] \in DOMAIN decision_labels
                          THEN decision_labels[mix[i][1]] ELSE ""
        /\ (/\ Len(batch) = 3
            /\ Cardinality(RecordsWithCode("Α.1")) = 2
            /\ Cardinality(RecordsWithCode("Ζ.9")) = 1
            /\ "Α.1" \in DOMAIN decision_labels
            /\ "Ζ.9" \notin DOMAIN decision_labels) =>
              /\ mix = << <<"Α.1", decision_labels["Α.1"], Fl(Rat(667, 10))>>,
                          <<"Ζ.9", "", Fl(Rat(333, 10))>> >>
              /\ unknown_codes = <<"Ζ.9">>

\* The share of code c in the whole batch, in percent.
ShareOfBatch(c) == Rat(Cardinality(RecordsWithCode(c)) * 100, Len(batch))

\* C19: each share of the mix is the code's share of the whole batch,
\* (records with the code) / (records of the batch) * 100 rounded to one
\* decimal, also when some records have no code; the mix has at most K
\* entries with pairwise distinct codes in non-increasing share order, and no
\* code left out has a strictly larger share than a code returned.
C19_ShareOfWholeBatch ==
    pc = "mix_done" =>
        /\ \A i \in 1 .. Len(mix) :
              /\ mix[i][1] \in CodesOfBatch
              /\ mix[i][3] = RoundTo(Fl(ShareOfBatch(mix[i][1])), 1)
        /\ Len(mix) <= MixLimit
        /\ \A i, j \in 1 .. Len(mix) : i # j => mix[i][1] # mix[j][1]
        /\ \A i \in 1 .. (Len(mix) - 1) : RLe(mix[i + 1][3][1], mix[i][3][1])
        /\ \A c \in CodesOfBatch :
              (\A i \in 1 .. Len(mix) : mix[i][1] # c) =>
                  \A i \in 1 .. Len(mix) :
                      ~RLt(ShareOfBatch(mix[i][1]), ShareOfBatch(c))


(***************************************************************************)
(* Claims about normalisation (SpecKpi)                                    *)
(***************************************************************************)
WellFormed(rec, key) ==
    key \in DOMAIN rec /\ rec[key] # <<>> /\ rec[key][1] \in DOMAIN TsTable

\* (submission - issuance) in seconds / 86400 of a record with both
\* timestamps well-formed, undefined otherwise.
DelayOfRecord(rec) ==
    IF WellFormed(rec, "issueDate") /\ WellFormed(rec, "submissionTimestamp")
    THEN LET issue == TsTable[rec["issueDate"][1]]
             subm == TsTable[rec["submissionTimestamp"][1]]
         IN Fl(Rat(DayDiff(issue.date, subm.date) * 86400
                     + subm.secs - issue.secs, 86400))
    ELSE NaN

\* C17: normalisation never raises and never drops or reorders a record: the
\* output has exactly the records of the input batch, in order; a record
\* whose issuance or submission timestamp is malformed or missing gets an
\* undefined delay, a record with both well-formed gets
\* (submission - issuance) in seconds / 86400; an empty batch normalises to
\* an empty batch.
C17_NormalizationTotal ==
    [][NormalizeStep =>
         /\ pc' = "normalized"
         /\ Len(frame'.rows) = Len(batch)
         /\ \A i \in 1 .. Len(batch) :
               /\ "delay_days" \in frame'.columns
               /\ frame'.rows[i]["delay_days"] = DelayOfRecord(batch[i])
               /\ \A k \in DOMAIN batch[i] \ {"organizationLabel"} :
                     frame'.rows[i][k] = batch[i][k]]_vars


(***************************************************************************)
(* Claims about the record cap of fetch_range (SpecFetch)                  *)
(***************************************************************************)
\* C18: fetch_range stops accumulating once the accumulated record count
\* reaches the maximum total record cap: against a server that answers every
\* page request with a full page of PAGE_SIZE records it holds at most
\* MAX_RESULTS records and sends no request once it holds that many.
C18_FetchRangeCapped ==
    [][(impl = "DMD" /\ srvMode = "full") =>
           /\ rows' <= MAX_RESULTS
           /\ rows >= MAX_RESULTS => nreq' = nreq]_vars


(***************************************************************************)
(* Claims about the termination of fetch_export (SpecFetchLive)            *)
(***************************************************************************)
\* C22: fetch_export always terminates and issues at most
\* MAX_RESULTS / PAGE_SIZE page requests for a window, whatever page lengths
\* the server returns; the page indices requested are 0, 1, 2, ... with none
\* skipped or repeated.
C22_TerminatesWithinTenRequests ==
    /\ [](impl = "DM" =>
             /\ Len(reqlog) <= MAX_RESULTS \div PAGE_SIZE
             /\ \A i \in 1 .. Len(reqlog) : reqlog[i].page = i - 1)
    /\ (impl = "DM" ~> pc \in {"returned", "raised"})

\* fetch_export returned after its tenth request, from a server whose pages
\* were longer than asked for.
C22_Witness ==
    /\ impl = "DM" /\ srvMode = "any" /\ pc = "returned"
    /\ Len(reqlog) = MAX_RESULTS \div PAGE_SIZE
    /\ rows > MAX_RESULTS


(***************************************************************************)
(* Claims about _get (SpecGet)                                             *)
(***************************************************************************)
\* C24: _get with retries = n >= 1 issues at most n requests; it returns the
\* response of the first request that succeeds and issues none after it; it
\* raises the request error only when the n-th attempt failed; and it never
\* returns without a response.
C24_RetriesBounded ==
    retries >= 1 =>
        /\ nreq <= retries
        /\ Len(reqlog) = nreq
        /\ \A i \in 1 .. (Len(reqlog) - 1) : reqlog[i].result # "ok"
        /\ (pc = "returned") <=>
              (reqlog # <<>> /\ reqlog[Len(reqlog)].result = "ok")
        /\ pc = "returned" => outcome = "response"
        /\ pc = "raised" =>
              /\ nreq = retries
              /\ outcome = reqlog[retries].result
              /\ outcome \in RequestErrors
        /\ outcome # "None"

\* The third of three attempts succeeded after two request errors.
C24_Witness ==
    /\ retries = 3 /\ pc = "returned" /\ outcome = "response"
    /\ nreq = 3 /\ reqlog[1].result # "ok" /\ reqlog[2].result # "ok"


(***************************************************************************)
(* Claims about fetch_diavgeia_export (SpecExport)                         *)
(***************************************************************************)
\* The pages written follow one another from offset 0 up to offset n: the
\* rows written are the first n records of the result list, each once.
WrittenIsPrefix(n) ==
    IF written = <<>> THEN n = 0
    ELSE /\ written[1].lo = 0
         /\ \A i \in 1 .. (Len(written) - 1) : written[i + 1].lo = written[i].hi
         /\ written[Len(written)].hi = n

\* C23: with the server answering (page p, size s) with the records at
\* offsets [p*s, p*s + s) of one fixed result list, the rows written for
\* limit L are exactly the first min(L, total) records of the list, each
\* written once, for every L >= 1.
C23_WritesListPrefix ==
    (pc = "export_done" /\ limit >= 1) =>
        WrittenIsPrefix(Min(limit, srvTotal))


(***************************************************************************)
(* Claims about compute_regional_trends (SpecRegional)                     *)
(***************************************************************************)
\* The records of the batch with a parseable issuance timestamp.
DatedRecords == {i \in 1 .. Len(batch) : WellFormed(batch[i], "issueDate")}

\* The calendar month of a dated record, counted in months.
MonthNumber(i) ==
    LET d == TsTable[batch[i]["issueDate"][1]].date IN d.y * 12 + d.m

LatestMonthNumber ==
    CHOOSE n \in {MonthNumber(i) : i \in DatedRecords} :
        \A i \in DatedRecords : MonthNumber(i) <= n

\* The records issued in the `months` consecutive calendar months that end
\* at the latest month of the batch.
WindowRecords ==
    {i \in DatedRecords : MonthNumber(i) > LatestMonthNumber - months}

RegionOfRecord(i) == batch[i]["region"][1]

\* C21: compute_regional_trends(batch, N) uses exactly the records issued in
\* the N consecutive calendar months ending at the latest month present:
\* every (month, region) row has its month in that range and its count is
\* the number of such records of that month and region, each region with
\* such a record has one summary row whose total_decisions is the number of
\* such records of the region, and the summary is in non-increasing order of
\* total_decisions; a batch that is empty or has no parseable issuance date
\* gives an empty summary.
C21_WindowOfMonths ==
    pc = "regional_done" =>
        IF DatedRecords = {} THEN regional.summary = <<>>
        ELSE /\ \A j \in 1 .. Len(regional.monthly) :
                  LET r == regional.monthly[j]
                      n == r.month.y * 12 + r.month.m
                  IN /\ n > LatestMonthNumber - months
                     /\ n <= LatestMonthNumber
                     /\ r.count = Cardinality({i \in WindowRecords :
                                      /\ MonthNumber(i) = n
                                      /\ RegionOfRecord(i) = r.region})
             /\ \A i \in WindowRecords :
                  \E j \in 1 .. Len(regional.monthly) :
                      /\ regional.monthly[j].region = RegionOfRecord(i)
                      /\ regional.monthly[j].month.y * 12
                           + regional.monthly[j].month.m = MonthNumber(i)
             /\ \A j \in 1 .. Len(regional.summary) :
                  regional.summary[j].total_decisions =
                      Cardinality({i \in WindowRecords :
                          RegionOfRecord(i) = regional.summary[j].region})
             /\ {regional.summary[j].region : j \in 1 .. Len(regional.summary)}
                  = {RegionOfRecord(i) : i \in WindowRecords}
             /\ \A j, k \in 1 .. Len(regional.summary) :
                  j # k => regional.summary[j].region # regional.summary[k].region
             /\ \A j \in 1 .. (Len(regional.summary) - 1) :
                  regional.summary[j].total_decisions
                      >= regional.summary[j + 1].total_decisions

\* The window of three months left out records of an earlier month and of
\* the year before, and the summary has both regions with different totals.
C21_Witness ==
    /\ pc = "regional_done" /\ months = 3
    /\ \E i \in DatedRecords : MonthNumber(i) = LatestMonthNumber - 3
    /\ \E i \in DatedRecords : TsTable[batch[i]["issueDate"][1]].date.y = 2023
    /\ Len(regional.summary) = 2
    /\ regional.summary[1].total_decisions > regional.summary[2].total_decisions


=============================================================================
